---------------------------- MODULE Spec2Model ----------------------------
(***************************************************************************)
(* A model of the layered-fallback answer engine of the Telegram FAQ bot:  *)
(*   bot/robust_faq_system.py   RobustFAQSystem.get_robust_answer          *)
(*   bot/intelligent_agent.py   IntelligentFAQAgent.find_specific_answer   *)
(*   bot/faq_crawler.py         FAQCrawler.search_faqs                     *)
(*   bot/ollama_client.py       AIClient.query_with_faq_context            *)
(*   bot/file_faq_client.py     FileFAQClient.search_faq                   *)
(*                                                                         *)
(* Texts are TLA+ strings; Python's lower(), "in", split() and re.search   *)
(* are computed on them character by character.  Confidences are integers  *)
(* in units of 1/10000: 0.7 is 7000.  A float sum that is not the nearest  *)
(* double of its decimal is carried one unit off (0.7000000000000001 is    *)
(* 7001), which keeps the order of all values the code can produce.        *)
(* Relevance scores of the crawler are integer-valued floats and are       *)
(* carried as integers.                                                    *)
(***************************************************************************)
EXTENDS Integers, Sequences, FiniteSets, TLC

VARIABLES
    op,           \* the entry point being served: "none", "robust", "ai", "file"
    query,        \* the query string of the call being served
    pc,           \* position inside the entry point
    evaluated,    \* robust: the tiers evaluated so far, in order
    deepCalls,    \* robust: calls of intelligent_agent.find_specific_answer
    corpusCalls,  \* robust/ai: calls of faq_crawler.search_faqs
    fetches,      \* source fetches started for the query
    deepTop,      \* robust: <<confidence of agent_results[0]>>, <<>> if there is none
    corpusTop,    \* robust: <<relevance_score of faq_results[0]>>, <<>> if there is none
    failed,       \* the steps of this call that ended in a caught exception
    results,      \* ai/file: the ranked records handed to the synthesizer
    modelCalls,   \* ai/file: the model calls issued, in order
    answer,       \* the value returned: a RobustAnswer, or a reply text
    raised,       \* TRUE when an exception left the entry point
    input,        \* a function applied on its own: its arguments
    output,       \* a function applied on its own: its result
    now,          \* crawler: time.time(), in seconds
    cache,        \* crawler: self._cache, the items stored per source
    cacheTimestamp, \* crawler: self._cache_timestamp, the time stored per source
    calls         \* crawler: the calls made on the crawler and what they did

\* the variables of the entry points
engineVars == <<op, query, pc, evaluated, deepCalls, corpusCalls, fetches, deepTop,
                corpusTop, failed, results, modelCalls, answer, raised>>

\* the variables of a function applied on its own, and of the crawler
pureVars == <<input, output>>
cacheVars == <<now, cache, cacheTimestamp, calls>>

\* the variables the entry points leave alone
otherVars == <<pureVars, cacheVars>>

vars == <<engineVars, otherVars>>

----------------------------------------------------------------------------
(* Bounds *)

\* The longest query, in words of QueryWords.
MaxWords == 3

\* Python's None, as a return value
None == [none |-> TRUE]

----------------------------------------------------------------------------
(* Python string operations *)

CharAt(s, i) == SubSeq(s, i, i)

UpperLetters ==
    {"A", "B", "C", "D", "E", "F", "G", "H", "I", "J", "K", "L", "M", "N", "O",
     "P", "Q", "R", "S", "T", "U", "V", "W", "X", "Y", "Z"}
LowerLetters ==
    {"a", "b", "c", "d", "e", "f", "g", "h", "i", "j", "k", "l", "m", "n", "o",
     "p", "q", "r", "s", "t", "u", "v", "w", "x", "y", "z"}
Digits == {"0", "1", "2", "3", "4", "5", "6", "7", "8", "9"}

\* the lower-case letter of each upper-case letter
ToLower ==
    ("A" :> "a") @@ ("B" :> "b") @@ ("C" :> "c") @@ ("D" :> "d") @@
    ("E" :> "e") @@ ("F" :> "f") @@ ("G" :> "g") @@ ("H" :> "h") @@
    ("I" :> "i") @@ ("J" :> "j") @@ ("K" :> "k") @@ ("L" :> "l") @@
    ("M" :> "m") @@ ("N" :> "n") @@ ("O" :> "o") @@ ("P" :> "p") @@
    ("Q" :> "q") @@ ("R" :> "r") @@ ("S" :> "s") @@ ("T" :> "t") @@
    ("U" :> "u") @@ ("V" :> "v") @@ ("W" :> "w") @@ ("X" :> "x") @@
    ("Y" :> "y") @@ ("Z" :> "z")

LowerChar(c) == IF c \in UpperLetters THEN ToLower[c] ELSE c

RECURSIVE Lower(_)
\* str.lower(): every character lowered, the two halves of s one after the
\* other
Lower(s) ==
    IF Len(s) <= 1 THEN LowerChar(s)
    ELSE Lower(SubSeq(s, 1, Len(s) \div 2)) \o Lower(SubSeq(s, Len(s) \div 2 + 1, Len(s)))

\* k occurs in s at position i
OccursAt(s, k, i) == i >= 1 /\ i + Len(k) - 1 <= Len(s) /\ SubSeq(s, i, i + Len(k) - 1) = k

\* Python's "k in s" on strings
Contains(s, k) == \E i \in 1..(Len(s) - Len(k) + 1) : OccursAt(s, k, i)

Min(a, b) == IF a <= b THEN a ELSE b

RECURSIVE SplitFrom(_, _, _, _)
\* str.split(sep) for a one-character separator: the pieces between separators,
\* empty pieces included; cur is the piece being read, i the next position
SplitFrom(s, sep, i, cur) ==
    IF i > Len(s) THEN <<cur>>
    ELSE IF CharAt(s, i) = sep THEN <<cur>> \o SplitFrom(s, sep, i + 1, "")
         ELSE SplitFrom(s, sep, i + 1, cur \o CharAt(s, i))

Split(s, sep) == SplitFrom(s, sep, 1, "")

\* a character of the regular expression class \w (ASCII letters, digits, _)
IsWordChar(c) == c \in LowerLetters \/ c \in UpperLetters \/ c \in Digits \/ c = "_"

RECURSIVE WordsFrom(_, _, _)
\* set(re.findall(r'\w+', s)): the maximal runs of word characters
WordsFrom(s, i, cur) ==
    IF i > Len(s) THEN (IF cur = "" THEN {} ELSE {cur})
    ELSE IF IsWordChar(CharAt(s, i)) THEN WordsFrom(s, i + 1, cur \o CharAt(s, i))
         ELSE (IF cur = "" THEN {} ELSE {cur}) \cup WordsFrom(s, i + 1, "")

WordSet(s) == WordsFrom(s, 1, "")

\* no line break in s[from..to]: what the regular expression ".*" can span
NoLineBreak(s, from, to) == \A i \in from..to : CharAt(s, i) # "\n"

RECURSIVE MatchGroups(_, _, _, _)
\* re.search for a pattern (g1).*(g2).*(g3): groups is the sequence of the
\* alternatives of each group, from the first position the next group may
\* start at, first whether the next group is the pattern's first
MatchGroups(s, groups, from, first) ==
    IF groups = <<>> THEN TRUE
    ELSE \E alt \in Head(groups) : \E i \in from..(Len(s) + 1) :
            /\ OccursAt(s, alt, i)
            /\ first \/ NoLineBreak(s, from, i - 1)
            /\ MatchGroups(s, Tail(groups), i + Len(alt), FALSE)

ReSearch(groups, s) == MatchGroups(s, groups, 1, TRUE)

RECURSIVE JoinWords(_)
\* " ".join(ws)
JoinWords(ws) ==
    IF ws = <<>> THEN ""
    ELSE IF Len(ws) = 1 THEN ws[1]
         ELSE ws[1] \o " " \o JoinWords(Tail(ws))

----------------------------------------------------------------------------
(* Queries *)

\* The words queries are made of.  "IC" is upper case as users write it.
QueryWords == {"berapa", "cip", "IC", "rosak", "syarat", "pasport", "dokumen"}

\* Every query of at most MaxWords words, the empty message included.
Queries ==
    {JoinWords(ws) : ws \in UNION {[1..n -> QueryWords] : n \in 0..MaxWords}}

----------------------------------------------------------------------------
(* RobustFAQSystem: the tables *)

ConfidenceCritical == 10000
ConfidencePattern == 9000
ConfidenceFallback == 5000
CriticalMinKeywords == 3

IcChipAnswer ==
    "Bayaran Penggantian Cip IC yang Rosak: PERCUMA dalam tempoh 1 tahun, RM 10.00 selepas 1 tahun. Sumber: Jabatan Pendaftaran Negara Malaysia (JPN)"
PassportAnswer ==
    "Syarat Permohonan Pasport Malaysia: Kad Pengenalan, sijil kelahiran, borang IM.12. Sumber: Jabatan Imigresen Malaysia"
FallbackAnswer ==
    "Maaf, maklumat spesifik untuk soalan anda tidak tersedia dalam FAQ yang disediakan. Sila hubungi JPN, Jabatan Imigresen Malaysia, PDRM."

\* self.critical_answers, in the dictionary's insertion order
critical_answers == <<
    [name |-> "ic_chip_cost",
     keywords |-> {"cip", "chip", "ic", "kad pengenalan", "mykad", "rosak", "bayar", "kos",
                   "replacement", "replace", "cost", "fee", "damaged", "damage", "broken", "repair"},
     answer |-> IcChipAnswer,
     source |-> "www.jpn.gov.my",
     confidence |-> ConfidenceCritical],
    [name |-> "passport_requirements",
     keywords |-> {"passport", "pasport", "syarat", "keperluan", "dokumen"},
     answer |-> PassportAnswer,
     source |-> "www.imi.gov.my",
     confidence |-> ConfidenceCritical] >>

\* self.pattern_responses, in the dictionary's insertion order: each regular
\* expression as its groups of alternatives, joined by ".*"
pattern_responses == <<
    [groups |-> << {"berapa", "kos", "bayar", "harga", "cost", "fee", "much"},
                   {"cip", "chip", "ic"},
                   {"rosak", "damage", "broken", "replace"} >>,
     answer_type |-> "ic_chip_cost"],
    [groups |-> << {"ic", "chip", "cip"},
                   {"replacement", "replace", "rosak", "damage", "broken"},
                   {"cost", "fee", "bayar", "kos"} >>,
     answer_type |-> "ic_chip_cost"],
    [groups |-> << {"syarat", "keperluan", "dokumen"}, {"passport", "pasport"} >>,
     answer_type |-> "passport_requirements"],
    [groups |-> << {"bagaimana", "cara"}, {"mohon", "apply"}, {"passport", "pasport"} >>,
     answer_type |-> "passport_requirements"] >>

\* sum(1 for keyword in config['keywords'] if keyword in query_lower)
KeywordMatches(keywords, text_lower) ==
    Cardinality({k \in keywords : Contains(text_lower, k)})

RobustAnswer(q, a, s, c, m) ==
    [question |-> q, answer |-> a, source |-> s, confidence |-> c, method |-> m]

\* a first layer that never answers
CriticalNeverAnswers(q) == None

\* _check_critical_answers: the first entry with enough keywords in the query
_check_critical_answers(q) ==
    LET query_lower == Lower(q)
        hits == {i \in 1..Len(critical_answers) :
                    KeywordMatches(critical_answers[i].keywords, query_lower)
                        >= CriticalMinKeywords}
    IN  IF hits = {} THEN None
        ELSE LET config == critical_answers[CHOOSE i \in hits : \A j \in hits : i <= j]
             IN  RobustAnswer(q, config.answer, config.source, config.confidence,
                              "critical_hardcoded")

\* the entry of critical_answers with this name, as a set (empty if absent)
CriticalEntry(name) ==
    {critical_answers[i] : i \in {j \in 1..Len(critical_answers) : critical_answers[j].name = name}}

\* _check_pattern_answers: the first pattern found in the query whose answer
\* type is an entry of critical_answers
_check_pattern_answers(q) ==
    LET query_lower == Lower(q)
        hits == {i \in 1..Len(pattern_responses) :
                    /\ ReSearch(pattern_responses[i].groups, query_lower)
                    /\ CriticalEntry(pattern_responses[i].answer_type) # {}}
    IN  IF hits = {} THEN None
        ELSE LET first == CHOOSE i \in hits : \A j \in hits : i <= j
                 config == CHOOSE c \in CriticalEntry(pattern_responses[first].answer_type) : TRUE
             IN  RobustAnswer(q, config.answer, config.source, ConfidencePattern,
                              "pattern_matched")

\* a last layer that declines
FallbackDeclines(q) == None

\* _get_fallback_response
_get_fallback_response(q) ==
    RobustAnswer(q, FallbackAnswer, "general_fallback", ConfidenceFallback, "fallback")

----------------------------------------------------------------------------
(* bot/config.py *)

\* FAQ_WEBSITES: the first two of the nine configured sources
FAQ_WEBSITES == <<
    "https://www.moha.gov.my/index.php/ms/soalan-lazim",
    "https://www.rela.gov.my/?page_id=4621" >>

\* url.split('/')[2]
Website(url) == Split(url, "/")[3]

\* Website of each configured source, computed once
WebsiteOf == [i \in 1..Len(FAQ_WEBSITES) |-> Website(FAQ_WEBSITES[i])]

\* The orders in which the futures of one batch can complete (as_completed).
CompletionOrders ==
    {o \in [1..Len(FAQ_WEBSITES) -> 1..Len(FAQ_WEBSITES)] :
        \A i, j \in 1..Len(FAQ_WEBSITES) : i # j => o[i] # o[j]}

\* The outcome of a request that timed out, failed in transport or ended
\* with an HTTP error status (requests raises).
FetchFailed == [failed |-> TRUE]

----------------------------------------------------------------------------
(* IntelligentFAQAgent *)

HighConfidence == 7000
MinSemanticConfidence == 3000
MiningCap == 9000
MiningMinRelevance == 3
MaxHighResults == 3
MaxLowResults == 5
MinTypeKeywords == 2

\* self.question_patterns, in the dictionary's insertion order
question_patterns == <<
    [name |-> "ic_chip_cost",
     keywords |-> {"cip", "chip", "ic", "kad pengenalan", "rosak", "bayaran", "kos", "harga"}],
    [name |-> "passport_requirements",
     keywords |-> {"passport", "pasport", "syarat", "keperluan", "dokumen"}] >>

\* _analyze_query: the type of the first profile with two keywords in the query
_analyze_query(q) ==
    LET query_lower == Lower(q)
        hits == {i \in 1..Len(question_patterns) :
                    KeywordMatches(question_patterns[i].keywords, query_lower) >= MinTypeKeywords}
    IN  IF hits = {} THEN "general"
        ELSE question_patterns[CHOOSE i \in hits : \A j \in hits : i <= j].name

\* What a fetched page holds for the three passes.  A pattern or semantic
\* candidate is found under one profile (its patterns match, its block holds two
\* of its keywords) and carries the confidence _calculate_confidence gives it
\* under that profile.  A mining sentence carries its signal score (amount 2,
\* period 1, free of charge 2), the profile whose keywords it holds and how
\* many, and has a question nearby.
PageExact ==
    [pattern |-> << [profile |-> "ic_chip_cost", question |-> "Berapa bayaran cip rosak?",
                     answer |-> "Bayaran dikenakan bagi cip yang rosak.", confidence |-> 7000] >>,
     semantic |-> <<>>, mining |-> <<>>]
PageAbove ==
    [pattern |-> <<>>,
     semantic |-> << [profile |-> "ic_chip_cost", question |-> "Adakah bayaran dikenakan?",
                      answer |-> "Percuma dalam tempoh satu tahun.", confidence |-> 7001],
                     [profile |-> "ic_chip_cost", question |-> "Adakah cip rosak?",
                      answer |-> "Sila ke kaunter.", confidence |-> 2000] >>,
     mining |-> << [profile |-> "passport_requirements", keywords |-> 1, signals |-> 4,
                    question |-> "Bila pasport siap", answer |-> "Bayaran RM 200, percuma bagi warga emas"] >>]
PageMining ==
    [pattern |-> <<>>, semantic |-> <<>>,
     mining |-> << [profile |-> "ic_chip_cost", keywords |-> 2, signals |-> 5,
                    question |-> "Berapa bayaran", answer |-> "RM 10 selepas 1 tahun, percuma sebelum itu bagi cip rosak"] >>]
PageHigh ==
    [pattern |-> << [profile |-> "passport_requirements", question |-> "Apakah syarat pasport?",
                     answer |-> "Dokumen diperlukan: kad pengenalan.", confidence |-> 6000] >>,
     semantic |-> << [profile |-> "ic_chip_cost", question |-> "Berapa kos ganti cip?",
                      answer |-> "RM 10, percuma dalam satu tahun jika rosak.", confidence |-> 9000] >>,
     mining |-> <<>>]

DeepPages == {PageExact, PageAbove, PageMining, PageHigh}

\* _analyze_query of each query, computed once
StrategyType == [q \in Queries |-> _analyze_query(q)]

\* an AnswerResult found on source number site
AnswerResult(q, a, c, site) ==
    [question |-> q, answer |-> a, confidence |-> c, website |-> WebsiteOf[site]]

\* min(0.9, relevance_score * 0.15): 3 * 0.15 and 6 * 0.15 are the doubles just
\* below 0.45 and 0.9
MiningConfidence(relevance_score) ==
    CASE relevance_score = 3 -> 4499
      [] relevance_score = 6 -> 8999
      [] OTHER -> Min(MiningCap, relevance_score * 1500)

\* _find_pattern_matches: run only for a classified query
_find_pattern_matches(site, page, type) ==
    LET found == SelectSeq(page.pattern, LAMBDA c : c.profile = type)
    IN  [i \in 1..Len(found) |->
            AnswerResult(found[i].question, found[i].answer, found[i].confidence, site)]

\* _semantic_content_analysis: blocks with two keywords of the strategy, pairs
\* with confidence above 0.3
_semantic_content_analysis(site, page, type) ==
    LET found == SelectSeq(page.semantic,
                           LAMBDA c : c.profile = type /\ c.confidence > MinSemanticConfidence)
    IN  [i \in 1..Len(found) |->
            AnswerResult(found[i].question, found[i].answer, found[i].confidence, site)]

\* relevance_score of a sentence in _deep_text_mining
MiningRelevance(sentence, type) ==
    (IF sentence.profile = type THEN sentence.keywords ELSE 0) + sentence.signals

\* _deep_text_mining
_deep_text_mining(site, page, type) ==
    LET found == SelectSeq(page.mining,
                           LAMBDA s : MiningRelevance(s, type) >= MiningMinRelevance)
    IN  [i \in 1..Len(found) |->
            AnswerResult(found[i].question, found[i].answer,
                         MiningConfidence(MiningRelevance(found[i], type)), site)]

\* _search_website_intelligently: a failed request yields no candidate
_search_website_intelligently(site, fetched, type) ==
    IF fetched = FetchFailed THEN <<>>
    ELSE (IF type # "general" THEN _find_pattern_matches(site, fetched, type) ELSE <<>>)
         \o _semantic_content_analysis(site, fetched, type)
         \o _deep_text_mining(site, fetched, type)

RECURSIVE InsertIndex(_, _, _)
\* index x placed behind every index of the sequence whose key is not smaller:
\* one step of a stable descending sort
InsertIndex(sorted, x, keys) ==
    IF sorted = <<>> THEN <<x>>
    ELSE IF keys[Head(sorted)] >= keys[x]
         THEN <<Head(sorted)>> \o InsertIndex(Tail(sorted), x, keys)
         ELSE <<x>> \o sorted

RECURSIVE SortedIndexes(_, _)
\* the first n indexes of keys, by descending key, equal keys in index order
SortedIndexes(keys, n) ==
    IF n = 0 THEN <<>> ELSE InsertIndex(SortedIndexes(keys, n - 1), n, keys)

RECURSIVE InsertIndexAhead(_, _, _)
\* index x placed ahead of the indexes whose key is equal
InsertIndexAhead(sorted, x, keys) ==
    IF sorted = <<>> THEN <<x>>
    ELSE IF keys[Head(sorted)] > keys[x]
         THEN <<Head(sorted)>> \o InsertIndexAhead(Tail(sorted), x, keys)
         ELSE <<x>> \o sorted

RECURSIVE SortedIndexesAhead(_, _)
SortedIndexesAhead(keys, n) ==
    IF n = 0 THEN <<>> ELSE InsertIndexAhead(SortedIndexesAhead(keys, n - 1), n, keys)

\* a descending sort that puts equal keys in reverse order
SortTiesReversed(seq, keys) ==
    LET order == SortedIndexesAhead(keys, Len(seq))
    IN  [i \in 1..Len(seq) |-> seq[order[i]]]

\* list.sort(key=..., reverse=True), keys[i] the key of seq[i]: stable
SortDescending(seq, keys) ==
    LET order == SortedIndexes(keys, Len(seq))
    IN  [i \in 1..Len(seq) |-> seq[order[i]]]

\* seq[:n]
Take(seq, n) == SubSeq(seq, 1, Min(n, Len(seq)))

RECURSIVE Extend(_, _, _)
\* results.extend(...) over the futures as they complete: the per-source
\* lists, concatenated in completion order from the k-th completion on
Extend(perSite, order, k) ==
    IF k > Len(order) THEN <<>>
    ELSE perSite[order[k]] \o Extend(perSite, order, k + 1)

\* a deep search that returns the five best candidates whatever their confidence
FindTopFive(q, fetched, order) ==
    LET type == StrategyType[q]
        pooled == Extend([i \in 1..Len(FAQ_WEBSITES) |->
                             _search_website_intelligently(i, fetched[i], type)], order, 1)
    IN  Take(SortDescending(pooled, [i \in 1..Len(pooled) |-> pooled[i].confidence]),
             MaxLowResults)

\* find_specific_answer: fetched[i] is what the request for FAQ_WEBSITES[i]
\* returned, order the order in which the futures complete
find_specific_answer(q, fetched, order) ==
    LET type == StrategyType[q]
        website_results == [i \in 1..Len(FAQ_WEBSITES) |->
                               _search_website_intelligently(i, fetched[i], type)]
        pooled == Extend(website_results, order, 1)
        sorted == SortDescending(pooled, [i \in 1..Len(pooled) |-> pooled[i].confidence])
        high_confidence_results == SelectSeq(sorted, LAMBDA r : r.confidence >= HighConfidence)
    IN  IF high_confidence_results # <<>>
        THEN Take(high_confidence_results, MaxHighResults)
        ELSE Take(sorted, MaxLowResults)

----------------------------------------------------------------------------
(* FAQCrawler *)

DefaultMaxResults == 10
QuestionWeight == 3
AnswerWeight == 1
QuestionPhraseBonus == 5
AnswerPhraseBonus == 2

\* What _extract_faq_content finds on a fetched page: question and answer texts.
FaqChip == [question |-> "cip", answer |-> "rosak cip"]
FaqPassport == [question |-> "Syarat pasport", answer |-> "dokumen"]
FaqCost == [question |-> "Berapa bayaran cip", answer |-> "RM 10"]

ExtractedPage(items) == [items |-> items]
CorpusPages ==
    {ExtractedPage(<<FaqChip>>), ExtractedPage(<<FaqPassport>>),
     ExtractedPage(<<FaqCost, FaqChip>>)}

\* a FAQItem extracted from source number site
FAQItem(q, a, site, score) ==
    [question |-> q, answer |-> a, url |-> FAQ_WEBSITES[site], website |-> WebsiteOf[site],
     relevance_score |-> score]

\* a failed request reported as an item without text
ScrapeWithErrorItem(site, fetched) ==
    IF fetched = FetchFailed THEN << FAQItem("", "", site, 0) >>
    ELSE [i \in 1..Len(fetched.items) |->
             FAQItem(fetched.items[i].question, fetched.items[i].answer, site, 0)]

\* scrape_single_faq without its cache: the items extracted from the page, with
\* relevance_score at its default; none when the request failed
scrape_single_faq(site, fetched) ==
    IF fetched = FetchFailed THEN <<>>
    ELSE [i \in 1..Len(fetched.items) |->
             FAQItem(fetched.items[i].question, fetched.items[i].answer, site, 0)]

\* scrape_all_faqs: the items of every source, pooled as the futures complete
scrape_all_faqs(fetched, order) ==
    Extend([i \in 1..Len(FAQ_WEBSITES) |-> scrape_single_faq(i, fetched[i])],
           order, 1)

\* a score whose phrase bonus looks at the answer first
RelevanceAnswerFirst(q, faq) ==
    LET query_lower == Lower(q)
        query_words == WordSet(query_lower)
        question_lower == Lower(faq.question)
        answer_lower == Lower(faq.answer)
    IN  Cardinality(query_words \cap WordSet(question_lower)) * QuestionWeight
        + Cardinality(query_words \cap WordSet(answer_lower)) * AnswerWeight
        + (IF Contains(answer_lower, query_lower) THEN AnswerPhraseBonus
           ELSE IF Contains(question_lower, query_lower) THEN QuestionPhraseBonus
           ELSE 0)

\* the score search_faqs gives one item
Relevance(q, faq) ==
    LET query_lower == Lower(q)
        query_words == WordSet(query_lower)
        question_lower == Lower(faq.question)
        answer_lower == Lower(faq.answer)
        question_matches == Cardinality(query_words \cap WordSet(question_lower))
        answer_matches == Cardinality(query_words \cap WordSet(answer_lower))
    IN  question_matches * QuestionWeight
        + answer_matches * AnswerWeight
        + (IF Contains(question_lower, query_lower) THEN QuestionPhraseBonus
           ELSE IF Contains(answer_lower, query_lower) THEN AnswerPhraseBonus
           ELSE 0)

\* Relevance of each page entry for each query, computed once
RelevanceOf ==
    [q \in Queries |-> [faq \in {FaqChip, FaqPassport, FaqCost} |-> Relevance(q, faq)]]

\* search_faqs
search_faqs(q, max_results, fetched, order) ==
    LET all_faqs == scrape_all_faqs(fetched, order)
        scored == [i \in 1..Len(all_faqs) |->
                      [all_faqs[i] EXCEPT !.relevance_score =
                          RelevanceOf[q][[question |-> all_faqs[i].question,
                                          answer |-> all_faqs[i].answer]]]]
        relevant_faqs == SelectSeq(scored, LAMBDA faq : faq.relevance_score > 0)
    IN  IF all_faqs = <<>> THEN <<>>
        ELSE Take(SortDescending(relevant_faqs,
                            [i \in 1..Len(relevant_faqs) |-> relevant_faqs[i].relevance_score]),
             max_results)

----------------------------------------------------------------------------
(* RobustFAQSystem.get_robust_answer *)

AgentTrigger == 7000
CrawlerTrigger == 5
CrawlerCap == 8000
CrawlerMaxResults == 3

\* the first two layers in the other order
TierOrderPatternFirst == <<"pattern", "critical", "agent", "crawler", "fallback">>

\* The layers in the order get_robust_answer runs them.
TierOrder == <<"critical", "pattern", "agent", "crawler", "fallback">>

FirstTier == TierOrder[1]
TierAfter(t) == TierOrder[(CHOOSE i \in 1..Len(TierOrder) : TierOrder[i] = t) + 1]

\* A call of a collaborator: it raised, or it returned value.
Raised == [raises |-> TRUE, value |-> <<>>]
Returned(v) == [raises |-> FALSE, value |-> v]

\* a third layer without its try block
AgentLayerUnguarded(call) ==
    IF call.raises THEN [answer |-> None, raises |-> TRUE]
    ELSE IF call.value # <<>> /\ call.value[1].confidence > 7000
         THEN [answer |-> RobustAnswer(call.value[1].question, call.value[1].answer,
                                       call.value[1].website, call.value[1].confidence,
                                       "intelligent_agent"),
               raises |-> FALSE]
         ELSE [answer |-> None, raises |-> FALSE]

\* Layer 3: the try block around intelligent_agent.find_specific_answer.  The
\* layer's answer (None when it declines) and whether an exception leaves it.
AgentLayer(call) ==
    IF call.raises THEN [answer |-> None, raises |-> FALSE]
    ELSE IF call.value # <<>> /\ call.value[1].confidence > AgentTrigger
         THEN [answer |-> RobustAnswer(call.value[1].question, call.value[1].answer,
                                       call.value[1].website, call.value[1].confidence,
                                       "intelligent_agent"),
               raises |-> FALSE]
         ELSE [answer |-> None, raises |-> FALSE]

\* a fourth layer that answers from a top score of 5 on
CrawlerLayerAtLeast(call) ==
    IF call.raises THEN [answer |-> None, raises |-> FALSE]
    ELSE IF call.value # <<>> /\ call.value[1].relevance_score >= 5
         THEN [answer |-> RobustAnswer(call.value[1].question, call.value[1].answer,
                                       call.value[1].website,
                                       IF call.value[1].relevance_score >= 8 THEN 8000
                                       ELSE call.value[1].relevance_score * 1000,
                                       "faq_crawler"),
               raises |-> FALSE]
         ELSE [answer |-> None, raises |-> FALSE]

\* Layer 4: the try block around faq_crawler.search_faqs(query, max_results=3)
CrawlerLayer(call) ==
    IF call.raises THEN [answer |-> None, raises |-> FALSE]
    ELSE IF call.value # <<>> /\ call.value[1].relevance_score > CrawlerTrigger
         THEN [answer |-> RobustAnswer(call.value[1].question, call.value[1].answer,
                                       call.value[1].website,
                                       Min(CrawlerCap, call.value[1].relevance_score * 1000),
                                       "faq_crawler"),
               raises |-> FALSE]
         ELSE [answer |-> None, raises |-> FALSE]

\* What the environment lets a batch of requests return.
DeepFetches == [1..Len(FAQ_WEBSITES) -> DeepPages \cup {FetchFailed}]
CorpusFetches == [1..Len(FAQ_WEBSITES) -> CorpusPages \cup {FetchFailed}]

Idle ==
    /\ op = "none" /\ query = "" /\ pc = "idle" /\ evaluated = <<>>
    /\ deepCalls = 0 /\ corpusCalls = 0 /\ fetches = 0
    /\ deepTop = <<>> /\ corpusTop = <<>> /\ failed = {}
    /\ results = <<>> /\ modelCalls = <<>> /\ answer = None /\ raised = FALSE

\* no function is being applied on its own
NoCall == input = None /\ output = None

\* the crawler as constructed: nothing cached, nothing called
ColdCache == now = 0 /\ cache = <<>> /\ cacheTimestamp = <<>> /\ calls = <<>>

Init == Idle /\ NoCall /\ ColdCache

\* get_robust_answer(q) is called
GetRobustAnswer ==
    /\ op = "none"
    /\ \E q \in Queries : query' = q
    /\ op' = "robust"
    /\ pc' = FirstTier
    /\ UNCHANGED <<otherVars, evaluated, deepCalls, corpusCalls, fetches, deepTop, corpusTop,
                   failed, results, modelCalls, answer, raised>>

\* a layer ends: with its answer the call returns, without it the next layer runs
LayerEnds(tier, layer) ==
    /\ evaluated' = Append(evaluated, tier)
    /\ raised' = layer.raises
    /\ IF layer.raises \/ layer.answer # None
       THEN pc' = "done" /\ answer' = layer.answer
       ELSE pc' = TierAfter(tier) /\ answer' = answer

\* Layer 1
CriticalTier ==
    /\ op = "robust" /\ pc = "critical"
    /\ LayerEnds("critical", [answer |-> _check_critical_answers(query), raises |-> FALSE])
    /\ UNCHANGED <<otherVars, op, query, deepCalls, corpusCalls, fetches, deepTop, corpusTop,
                   failed, results, modelCalls>>

\* Layer 2
PatternTier ==
    /\ op = "robust" /\ pc = "pattern"
    /\ LayerEnds("pattern", [answer |-> _check_pattern_answers(query), raises |-> FALSE])
    /\ UNCHANGED <<otherVars, op, query, deepCalls, corpusCalls, fetches, deepTop, corpusTop,
                   failed, results, modelCalls>>

\* Layer 3, the agent returning
AgentTierReturns ==
    /\ op = "robust" /\ pc = "agent"
    /\ \E fetched \in DeepFetches, order \in CompletionOrders :
          LET agent_results == find_specific_answer(query, fetched, order)
          IN  /\ LayerEnds("agent", AgentLayer(Returned(agent_results)))
              /\ deepTop' = IF agent_results = <<>> THEN <<>>
                            ELSE <<agent_results[1].confidence>>
    /\ deepCalls' = deepCalls + 1
    /\ fetches' = fetches + Len(FAQ_WEBSITES)
    /\ UNCHANGED <<otherVars, op, query, corpusCalls, corpusTop, failed, results, modelCalls>>

\* Layer 3, the import or the agent raising
AgentTierRaises ==
    /\ op = "robust" /\ pc = "agent"
    /\ LayerEnds("agent", AgentLayer(Raised))
    /\ deepCalls' = deepCalls + 1
    /\ failed' = failed \cup {"agent"}
    /\ UNCHANGED <<otherVars, op, query, corpusCalls, fetches, deepTop, corpusTop, results, modelCalls>>

\* Layer 4, the crawler returning
CrawlerTierReturns ==
    /\ op = "robust" /\ pc = "crawler"
    /\ \E fetched \in CorpusFetches, order \in CompletionOrders :
          LET faq_results == search_faqs(query, CrawlerMaxResults, fetched, order)
          IN  /\ LayerEnds("crawler", CrawlerLayer(Returned(faq_results)))
              /\ corpusTop' = IF faq_results = <<>> THEN <<>>
                              ELSE <<faq_results[1].relevance_score>>
    /\ corpusCalls' = corpusCalls + 1
    /\ fetches' = fetches + Len(FAQ_WEBSITES)
    /\ UNCHANGED <<otherVars, op, query, deepCalls, deepTop, failed, results, modelCalls>>

\* Layer 4, the import or the crawler raising
CrawlerTierRaises ==
    /\ op = "robust" /\ pc = "crawler"
    /\ LayerEnds("crawler", CrawlerLayer(Raised))
    /\ corpusCalls' = corpusCalls + 1
    /\ failed' = failed \cup {"crawler"}
    /\ UNCHANGED <<otherVars, op, query, deepCalls, fetches, deepTop, corpusTop, results, modelCalls>>

\* Layer 5
FallbackTier ==
    /\ op = "robust" /\ pc = "fallback"
    /\ evaluated' = Append(evaluated, "fallback")
    /\ answer' = _get_fallback_response(query)
    /\ pc' = "done"
    /\ UNCHANGED <<otherVars, op, query, deepCalls, corpusCalls, fetches, deepTop, corpusTop,
                   failed, results, modelCalls, raised>>

----------------------------------------------------------------------------
(* AIClient (bot/ollama_client.py) *)

ContextSize == 5

\* The texts keep their wording in short; the book emoji and the bullet of the
\* source lists are written in ASCII.
SourcesHeading == "\n\n**Sources:**\n"
Bullet == "* "

EmergencyIcBody ==
    "Bayaran Penggantian Cip IC yang Rosak: PERCUMA dalam tempoh 1 tahun, RM 10.00 selepas 1 tahun. Hubungi JPN."
EmergencyGeneralBody ==
    "Maaf, maklumat spesifik untuk soalan anda tidak tersedia pada masa ini. Sila hubungi JPN, Jabatan Imigresen Malaysia, PDRM."
EmergencyIcAnswer == EmergencyIcBody \o SourcesHeading \o Bullet \o "www.jpn.gov.my"
EmergencyGeneralAnswer ==
    EmergencyGeneralBody \o SourcesHeading \o Bullet \o "Emergency fallback system"
NoModelResponse == "Model returned no response."

\* any(keyword in text for keyword in keywords)
AnyIn(keywords, text) == \E k \in keywords : Contains(text, k)

\* an emergency fallback that does not read the query
EmergencyFallbackFixed(q) == EmergencyGeneralAnswer

\* _emergency_fallback
_emergency_fallback(q) ==
    LET query_lower == Lower(q)
    IN  IF /\ AnyIn({"cip", "chip", "ic", "kad pengenalan"}, query_lower)
           /\ AnyIn({"bayar", "kos", "rosak"}, query_lower)
        THEN EmergencyIcAnswer
        ELSE EmergencyGeneralAnswer

\* A value of a JSON payload: a string, or something else (null, a number).
JsonString(s) == [isString |-> TRUE, text |-> s]
JsonNull == [isString |-> FALSE, text |-> ""]

\* What a model request can end in.  A chat-style request raises (timeout,
\* transport, HTTP status, a body that is not JSON or has no
\* choices[0].message.content) or returns the content; a completion-style
\* request raises or returns a JSON object with or without "response".
ChatOutcomes ==
    {Raised, Returned(JsonString("Bayaran ialah **RM 10**.")), Returned(JsonString("")),
     Returned(JsonNull)}
OllamaOutcomes ==
    {Raised, Returned([response |-> <<JsonString("Bayaran ialah RM 10.")>>]),
     Returned([response |-> <<JsonNull>>]), Returned([response |-> <<>>])}

\* _send_openai_compatible: result["choices"][0]["message"]["content"]
_send_openai_compatible(outcome) == outcome

\* _send_ollama_format: result.get("response", default)
_send_ollama_format(outcome) ==
    IF outcome.raises THEN Raised
    ELSE IF outcome.value.response = <<>> THEN Returned(JsonString(NoModelResponse))
         ELSE Returned(outcome.value.response[1])

RECURSIVE Dedup(_, _)
\* the elements of seq not in seen, each once, in order
Dedup(seq, seen) ==
    IF seq = <<>> THEN <<>>
    ELSE IF Head(seq) \in seen THEN Dedup(Tail(seq), seen)
         ELSE <<Head(seq)>> \o Dedup(Tail(seq), seen \cup {Head(seq)})

RECURSIVE BulletLines(_)
\* one bullet line per source
BulletLines(sources) ==
    IF sources = <<>> THEN ""
    ELSE Bullet \o Head(sources) \o "\n" \o BulletLines(Tail(sources))

\* _ai_search_and_answer: sent is what _send_to_ai did (raised, or the value it
\* returned).  The text with the sources appended, None after an exception
\* (one of _send_to_ai, or of adding a str to something that is none).
_ai_search_and_answer(context_sources, sent) ==
    LET sources_list == Dedup([i \in 1..Len(context_sources) |-> context_sources[i].website], {})
    IN  IF sent.raises \/ ~sent.value.isString THEN None
        ELSE [text |-> sent.value.text \o SourcesHeading \o BulletLines(sources_list)]

\* an end of query_with_faq_context that hands a failed synthesis to the
\* emergency fallback
AnswerWithoutPassthrough(search_results, sent) ==
    LET ai_response == _ai_search_and_answer(Take(search_results, ContextSize), sent)
    IN  IF ai_response # None /\ ai_response.text # ""
        THEN ai_response
        ELSE [text |-> EmergencyGeneralAnswer]

\* the end of query_with_faq_context once _send_to_ai is over
AnswerFromSearch(search_results, sent) ==
    LET ai_response == _ai_search_and_answer(Take(search_results, ContextSize), sent)
    IN  IF ai_response # None /\ ai_response.text # ""
        THEN ai_response
        ELSE [text |-> search_results[1].answer \o SourcesHeading \o Bullet
                       \o search_results[1].website]

\* query_with_faq_context without its except clause
SearchErrorPropagates(q) == [answer |-> None, raises |-> TRUE]

\* the except clause of query_with_faq_context: the reply and whether the
\* exception leaves the call
OnSearchError(q) == [answer |-> [text |-> _emergency_fallback(q)], raises |-> FALSE]

\* query_with_faq_context(q) is called
QueryWithFaqContext ==
    /\ op = "none"
    /\ \E q \in Queries : query' = q
    /\ op' = "ai"
    /\ pc' = "search"
    /\ UNCHANGED <<otherVars, evaluated, deepCalls, corpusCalls, fetches, deepTop, corpusTop,
                   failed, results, modelCalls, answer, raised>>

\* Step 1, search_faqs returning
AiSearchReturns ==
    /\ op = "ai" /\ pc = "search"
    /\ \E fetched \in CorpusFetches, order \in CompletionOrders :
          LET search_results == search_faqs(query, DefaultMaxResults, fetched, order)
          IN  IF search_results = <<>>
              THEN /\ answer' = [text |-> _emergency_fallback(query)]
                   /\ pc' = "done"
                   /\ results' = results
              ELSE /\ results' = search_results
                   /\ pc' = "chat"
                   /\ answer' = answer
    /\ corpusCalls' = corpusCalls + 1
    /\ fetches' = fetches + Len(FAQ_WEBSITES)
    /\ UNCHANGED <<otherVars, op, query, evaluated, deepCalls, deepTop, corpusTop, failed,
                   modelCalls, raised>>

\* Step 1, the import or search_faqs raising
AiSearchRaises ==
    /\ op = "ai" /\ pc = "search"
    /\ corpusCalls' = corpusCalls + 1
    /\ failed' = failed \cup {"search"}
    /\ answer' = OnSearchError(query).answer
    /\ raised' = OnSearchError(query).raises
    /\ pc' = "done"
    /\ UNCHANGED <<otherVars, op, query, evaluated, deepCalls, fetches, deepTop, corpusTop,
                   results, modelCalls>>

\* a _send_to_ai that repeats the chat-style request when it fails
AiChatAgain ==
    /\ op = "ai" /\ pc = "chat"
    /\ modelCalls' = Append(modelCalls, "chat")
    /\ \E outcome \in ChatOutcomes :
          LET sent == _send_openai_compatible(outcome)
          IN  IF sent.raises
              THEN /\ pc' = "chat"
                   /\ failed' = failed \cup {"chat"}
                   /\ answer' = answer
              ELSE /\ pc' = "done"
                   /\ failed' = IF sent.value.isString THEN failed ELSE failed \cup {"synthesize"}
                   /\ answer' = AnswerFromSearch(results, sent)
    /\ UNCHANGED <<otherVars, op, query, evaluated, deepCalls, corpusCalls, fetches, deepTop,
                   corpusTop, results, raised>>

\* Step 3, _send_to_ai: the chat-style request
AiChat ==
    /\ op = "ai" /\ pc = "chat"
    /\ modelCalls' = Append(modelCalls, "chat")
    /\ \E outcome \in ChatOutcomes :
          LET sent == _send_openai_compatible(outcome)
          IN  IF sent.raises
              THEN /\ pc' = "ollama"
                   /\ failed' = failed \cup {"chat"}
                   /\ answer' = answer
              ELSE /\ pc' = "done"
                   /\ failed' = IF sent.value.isString THEN failed ELSE failed \cup {"synthesize"}
                   /\ answer' = AnswerFromSearch(results, sent)
    /\ UNCHANGED <<otherVars, op, query, evaluated, deepCalls, corpusCalls, fetches, deepTop,
                   corpusTop, results, raised>>

\* Step 3, _send_to_ai: the completion-style request after the chat-style one failed
AiOllama ==
    /\ op = "ai" /\ pc = "ollama"
    /\ modelCalls' = Append(modelCalls, "ollama")
    /\ \E outcome \in OllamaOutcomes :
          LET sent == _send_ollama_format(outcome)
          IN  /\ failed' = IF sent.raises THEN failed \cup {"ollama", "synthesize"}
                           ELSE IF sent.value.isString THEN failed
                           ELSE failed \cup {"synthesize"}
              /\ answer' = AnswerFromSearch(results, sent)
    /\ pc' = "done"
    /\ UNCHANGED <<otherVars, op, query, evaluated, deepCalls, corpusCalls, fetches, deepTop,
                   corpusTop, results, raised>>

----------------------------------------------------------------------------
(* FileFAQClient (bot/file_faq_client.py) *)

UpperChar(c) == IF c \in LowerLetters THEN CHOOSE u \in UpperLetters : ToLower[u] = c ELSE c

RECURSIVE Upper(_)
\* str.upper()
Upper(s) == IF s = "" THEN "" ELSE UpperChar(CharAt(s, 1)) \o Upper(SubSeq(s, 2, Len(s)))

IsSpace(c) == c \in {" ", "\n", "\t", "\r"}

RECURSIVE TokensFrom(_, _, _)
\* str.split(): the runs of characters between white space, in order
TokensFrom(s, i, cur) ==
    IF i > Len(s) THEN (IF cur = "" THEN <<>> ELSE <<cur>>)
    ELSE IF IsSpace(CharAt(s, i))
         THEN (IF cur = "" THEN <<>> ELSE <<cur>>) \o TokensFrom(s, i + 1, "")
         ELSE TokensFrom(s, i + 1, cur \o CharAt(s, i))

Tokens(s) == TokensFrom(s, 1, "")

RECURSIVE Strip(_)
\* str.strip()
Strip(s) ==
    IF s = "" THEN ""
    ELSE IF IsSpace(CharAt(s, 1)) THEN Strip(SubSeq(s, 2, Len(s)))
    ELSE IF IsSpace(CharAt(s, Len(s))) THEN Strip(SubSeq(s, 1, Len(s) - 1))
    ELSE s

RECURSIVE SumOf(_)
SumOf(numbers) == IF numbers = <<>> THEN 0 ELSE Head(numbers) + SumOf(Tail(numbers))

\* agency_patterns, in the order of the dict
agency_patterns ==
    << <<"PUSPEN", "AADK">>, <<"NADA", "AADK">>, <<"PENGAMBILAN", "PDRM">>,
       <<"PASUKAN SUKARELAWAN POLIS", "PDRM">>, <<"TRAFIK", "PDRM">>,
       <<"LESEN SENJATA API", "PDRM">>, <<"APMM", "APMM">>,
       <<"PENDAFTARAN PERTUBUHAN", "ROS">>, <<"KAD PENGENALAN", "JPN">>,
       <<"KELAHIRAN", "JPN">>, <<"RELA", "RELA">>, <<"KESELAMATAN", "KDN">>,
       <<"PIROTEKNIK", "KDN">>, <<"SENJATA API", "KDN">>, <<"KAWALAN PENERBITAN", "KDN">>,
       <<"PENAPISAN FILEM", "KDN">>, <<"PENDAFTARAN NEGARA", "KDN">>,
       <<"KOMUNIKASI KORPORAT", "KDN">>, <<"AKAUN", "KDN">>, <<"PENCEGAHAN JENAYAH", "KDN">>,
       <<"LEMBAGA PAROL", "KDN">>, <<"KHIDMAT PENGURUSAN", "KDN">>,
       <<"TAPISAN KESELAMATAN", "KDN">>, <<"IPCC", "KDN">> >>

DefaultAgency == "KERAJAAN MALAYSIA"

\* _extract_agency_from_title: the agency of the first pattern the title holds
_extract_agency_from_title(title) ==
    LET title_upper == Upper(title)
        hits == {i \in 1..Len(agency_patterns) : Contains(title_upper, agency_patterns[i][1])}
    IN  IF hits = {} THEN DefaultAgency
        ELSE agency_patterns[CHOOSE i \in hits : \A j \in hits : i <= j][2]

\* the agency names in the order sorted() puts them
AgencyOrder == <<"AADK", "APMM", "JPN", "KDN", "KERAJAAN MALAYSIA", "PDRM", "RELA", "ROS">>

\* one entry of faq_sections, as _parse_faq_sections builds it
Section(title_line, q, a) ==
    [agency |-> _extract_agency_from_title(title_line), category |-> title_line,
     question |-> q, answer |-> a, full_text |-> "Q: " \o q \o "\nA: " \o a]

\* The question-answer pairs of the FAQ file the client was constructed over.
\* A file that cannot be read leaves faq_sections empty.
FaqFile ==
    << Section("KAD PENGENALAN (MyKad)", "Berapa bayaran ganti cip?", "RM 10 selepas 1 tahun."),
       Section("IMIGRESEN", "Apakah syarat pasport?", "Warganegara berumur 18 tahun."),
       Section("PASUKAN RELA", "Cip apa?", "Cip pasport.") >>
SectionFiles == {<<>>, FaqFile}

\* A longer file: the same pairs again under three more headings.
MoreTitles == <<"POLIS DIRAJA MALAYSIA", "APMM", "PENDAFTARAN PERTUBUHAN">>
LongFaqFile ==
    FaqFile \o [i \in 1..(Len(MoreTitles) * Len(FaqFile)) |->
                  Section(MoreTitles[((i - 1) \div Len(FaqFile)) + 1],
                          FaqFile[((i - 1) % Len(FaqFile)) + 1].question,
                          FaqFile[((i - 1) % Len(FaqFile)) + 1].answer)]

\* keywords_map
keywords_map ==
    << {"ic", "kad pengenalan", "mykad", "cip", "chip", "pengenalan"},
       {"apmm", "maritim", "join", "menyertai", "permohonan"},
       {"polis", "pdrm", "pengambilan", "recruitment", "konstabel", "sarjan", "inspektor"},
       {"rela", "sukarelawan", "keanggotaan", "latihan"},
       {"jpn", "kelahiran", "sijil lahir", "pendaftaran negara"},
       {"pertubuhan", "ros", "alamat berdaftar", "organisasi", "persatuan"},
       {"pasport", "passport", "imigresen", "travel"},
       {"lesen", "memandu", "senjata", "permit", "kelulusan"},
       {"alquran", "al-quran", "quran", "pencetakan", "penerbitan", "teks", "lpppq",
        "sistem upq", "borang a"},
       {"filem", "penapisan", "lpf", "tayangan", "pawagam"},
       {"senjata api", "pistol", "senapang", "firearm"},
       {"piroteknik", "bunga api", "mercun", "letupan"},
       {"mohon", "permohonan", "apply", "prosedur", "cara", "bagaimana", "macam mana", "how"},
       {"syarat", "kelayakan", "requirement", "criteria", "eligibility"},
       {"bayar", "bayaran", "kos", "yuran", "fee", "cost", "charge", "rm"} >>

\* the topics of keywords_map a text names
TopicsIn(text) == {t \in 1..Len(keywords_map) : AnyIn(keywords_map[t], text)}

\* the context-aware pairs: words of the query, words of the section, the
\* part of the section they are looked up in, the points
context_patterns ==
    << [query |-> {"mohon", "apply", "permohonan", "cara", "bagaimana", "macam mana", "how"},
        content |-> {"permohonan", "borang", "sistem", "prosedur", "langkah"},
        part |-> "answer", points |-> 10],
       [query |-> {"bayar", "kos", "yuran", "fee", "cost"},
        content |-> {"rm", "bayaran", "yuran", "percuma", "free"},
        part |-> "answer", points |-> 10],
       [query |-> {"syarat", "requirement", "kelayakan"},
        content |-> {"syarat", "kelayakan", "criteria", "umur", "warganegara"},
        part |-> "answer", points |-> 10],
       [query |-> {"quran", "alquran", "al-quran"},
        content |-> {"quran", "al-quran", "lpppq", "pencetakan", "penerbitan", "sistem upq"},
        part |-> "full_text", points |-> 15] >>

\* what the scoring reads of a section
SectionViewOf(section) ==
    [question_lower |-> Lower(section.question),
     answer_lower |-> Lower(section.answer),
     full_text_lower |-> Lower(section.full_text),
     question_words |-> Tokens(Lower(section.question)),
     answer_words |-> Tokens(Lower(section.answer)),
     topics |-> TopicsIn(Lower(section.full_text))]

\* SectionViewOf of each section of the file, computed once
SectionView == [i \in 1..Len(LongFaqFile) |-> SectionViewOf(LongFaqFile[i])]

\* the words of seq that hold keyword
Holding(seq, keyword) == Cardinality({i \in 1..Len(seq) : Contains(seq[i], keyword)})

\* the points one word of the query adds to a section
KeywordScore(keyword, view) ==
    IF Len(keyword) > 2
    THEN (IF Contains(view.question_lower, keyword) THEN 5 ELSE 0)
         + (IF Contains(view.answer_lower, keyword) THEN 3 ELSE 0)
         + (IF Len(keyword) > 3
            THEN 2 * Holding(view.question_words, keyword) + Holding(view.answer_words, keyword)
            ELSE 0)
    ELSE 0

\* what the scoring reads of each query, the same for every section
QueryView ==
    [q \in Queries |->
        LET query_lower == Lower(q)
        IN  [query_words |-> Tokens(query_lower),
             topics |-> TopicsIn(query_lower),
             contexts |-> {p \in 1..Len(context_patterns) :
                             AnyIn(context_patterns[p].query, query_lower)}]]

\* the score _find_relevant_sections gives a section, view what it reads of it
SectionPoints(q, view) ==
    LET query_words == QueryView[q].query_words
    IN  SumOf([k \in 1..Len(query_words) |-> KeywordScore(query_words[k], view)])
        + 8 * Cardinality(QueryView[q].topics \cap view.topics)
        + SumOf([p \in 1..Len(context_patterns) |->
                   IF /\ p \in QueryView[q].contexts
                      /\ AnyIn(context_patterns[p].content,
                               IF context_patterns[p].part = "answer"
                               THEN view.answer_lower ELSE view.full_text_lower)
                   THEN context_patterns[p].points ELSE 0])

\* the score _find_relevant_sections gives section i of the file
SectionScore(q, i) == SectionPoints(q, SectionView[i])

SectionLimit == 10

\* _find_relevant_sections over the loaded sections (a prefix of LongFaqFile)
_find_relevant_sections(q, faq_sections) ==
    LET scored == [i \in 1..Len(faq_sections) |->
                      [agency |-> faq_sections[i].agency, category |-> faq_sections[i].category,
                       question |-> faq_sections[i].question, answer |-> faq_sections[i].answer,
                       full_text |-> faq_sections[i].full_text,
                       relevance_score |-> SectionScore(q, i)]]
        relevant_sections == SelectSeq(scored, LAMBDA s : s.relevance_score > 0)
    IN  Take(SortDescending(relevant_sections,
                            [i \in 1..Len(relevant_sections) |->
                                relevant_sections[i].relevance_score]),
             SectionLimit)

FileSourcesHeading == "\n\nSources:\n"

RECURSIVE UnBold(_, _)
\* re.sub(r'\*\*(.*?)\*\*', r'\1', s) from position i on: each pair of "**"
\* with no line break between them is dropped, the nearest closing pair first
UnBold(s, i) ==
    IF i > Len(s) THEN ""
    ELSE LET closing == {j \in (i + 2)..Len(s) :
                            OccursAt(s, "**", j) /\ NoLineBreak(s, i + 2, j - 1)}
         IN  IF OccursAt(s, "**", i) /\ closing # {}
             THEN LET j == CHOOSE c \in closing : \A d \in closing : c <= d
                  IN  SubSeq(s, i + 2, j - 1) \o UnBold(s, j + 2)
             ELSE CharAt(s, i) \o UnBold(s, i + 1)

\* _clean_response_format.  The replies of ChatOutcomes and OllamaOutcomes hold
\* no bullet, heading, code or blank-line markup, so of the substitutions only
\* the one of the bold markers and the final strip() change them.
_clean_response_format(response) ==
    IF response = "" THEN response ELSE Strip(UnBold(response, 1))

\* sorted(sources)
SortedAgencies(sources) == SelectSeq(AgencyOrder, LAMBDA a : a \in sources)

\* _generate_ai_response: sent is what _send_to_ai did
_generate_ai_response(sections, sent) ==
    LET sources == {sections[i].agency : i \in 1..Len(sections)}
    IN  IF sent.raises THEN None
        ELSE IF sent.value.isString /\ sent.value.text # ""
             THEN [text |-> _clean_response_format(sent.value.text) \o FileSourcesHeading
                            \o BulletLines(SortedAgencies(sources))]
             ELSE None

NothingFound == "Tiada maklumat yang berkaitan ditemui."

\* _format_direct_response
_format_direct_response(sections) ==
    IF sections = <<>> THEN NothingFound
    ELSE sections[1].question \o "\n\n" \o sections[1].answer
         \o FileSourcesHeading \o Bullet \o sections[1].agency

FallbackJpn ==
    "Untuk maklumat berkaitan MyKad dan Kad Pengenalan: Hubungi JPN: https://www.jpn.gov.my"
    \o FileSourcesHeading \o Bullet \o "JPN (Jabatan Pendaftaran Negara)"
FallbackApmm ==
    "Untuk maklumat berkaitan APMM: Hubungi APMM: https://www.apmm.gov.my"
    \o FileSourcesHeading \o Bullet \o "APMM (Agensi Penguatkuasaan Maritim Malaysia)"
FallbackGeneral ==
    "Maaf, maklumat spesifik untuk soalan anda tidak ditemui dalam pangkalan data FAQ."
    \o FileSourcesHeading \o Bullet \o "Sistem FAQ Kerajaan Malaysia"

\* _fallback_response
_fallback_response(q) ==
    LET query_lower == Lower(q)
    IN  IF AnyIn({"ic", "kad pengenalan", "mykad"}, query_lower) THEN FallbackJpn
        ELSE IF Contains(query_lower, "apmm") THEN FallbackApmm
        ELSE FallbackGeneral

\* the end of search_faq once _send_to_ai is over
AnswerFromSections(relevant_sections, sent) ==
    LET ai_response == _generate_ai_response(relevant_sections, sent)
    IN  IF ai_response # None /\ ai_response.text # ""
        THEN ai_response
        ELSE [text |-> _format_direct_response(relevant_sections)]

\* the except clause of search_faq: the reply and whether the exception
\* leaves the call
OnFaqError(q) == [answer |-> [text |-> _fallback_response(q)], raises |-> FALSE]

\* search_faq(q) is called on a client
SearchFaq ==
    /\ op = "none"
    /\ \E q \in Queries : query' = q
    /\ op' = "file"
    /\ pc' = "sections"
    /\ UNCHANGED <<otherVars, evaluated, deepCalls, corpusCalls, fetches, deepTop, corpusTop,
                   failed, results, modelCalls, answer, raised>>

\* Step 1, _find_relevant_sections returning
FileSectionsFound ==
    /\ op = "file" /\ pc = "sections"
    /\ \E faq_sections \in SectionFiles :
          LET relevant_sections == _find_relevant_sections(query, faq_sections)
          IN  IF relevant_sections = <<>>
              THEN /\ answer' = [text |-> _fallback_response(query)]
                   /\ pc' = "done"
                   /\ results' = results
              ELSE /\ results' = relevant_sections
                   /\ pc' = "chat"
                   /\ answer' = answer
    /\ UNCHANGED <<otherVars, op, query, evaluated, deepCalls, corpusCalls, fetches, deepTop,
                   corpusTop, failed, modelCalls, raised>>

\* an exception inside the try block of search_faq
FileSearchRaises ==
    /\ op = "file" /\ pc = "sections"
    /\ failed' = failed \cup {"search"}
    /\ answer' = OnFaqError(query).answer
    /\ raised' = OnFaqError(query).raises
    /\ pc' = "done"
    /\ UNCHANGED <<otherVars, op, query, evaluated, deepCalls, corpusCalls, fetches, deepTop,
                   corpusTop, results, modelCalls>>

\* Step 2, _send_to_ai: the chat-style request
FileChat ==
    /\ op = "file" /\ pc = "chat"
    /\ modelCalls' = Append(modelCalls, "chat")
    /\ \E outcome \in ChatOutcomes :
          LET sent == _send_openai_compatible(outcome)
          IN  IF sent.raises
              THEN /\ pc' = "ollama"
                   /\ failed' = failed \cup {"chat"}
                   /\ answer' = answer
              ELSE /\ pc' = "done"
                   /\ failed' = failed
                   /\ answer' = AnswerFromSections(results, sent)
    /\ UNCHANGED <<otherVars, op, query, evaluated, deepCalls, corpusCalls, fetches, deepTop,
                   corpusTop, results, raised>>

\* Step 2, _send_to_ai: the completion-style request after the chat-style one failed
FileOllama ==
    /\ op = "file" /\ pc = "ollama"
    /\ modelCalls' = Append(modelCalls, "ollama")
    /\ \E outcome \in OllamaOutcomes :
          LET sent == _send_ollama_format(outcome)
          IN  /\ failed' = IF sent.raises THEN failed \cup {"ollama", "synthesize"} ELSE failed
              /\ answer' = AnswerFromSections(results, sent)
    /\ pc' = "done"
    /\ UNCHANGED <<otherVars, op, query, evaluated, deepCalls, corpusCalls, fetches, deepTop,
                   corpusTop, results, raised>>

----------------------------------------------------------------------------
\* the call has returned (or raised) and the caller goes on
Return ==
    /\ pc = "done"
    /\ op' = "none" /\ query' = "" /\ pc' = "idle" /\ evaluated' = <<>>
    /\ deepCalls' = 0 /\ corpusCalls' = 0 /\ fetches' = 0
    /\ deepTop' = <<>> /\ corpusTop' = <<>> /\ failed' = {}
    /\ results' = <<>> /\ modelCalls' = <<>> /\ answer' = None /\ raised' = FALSE
    /\ UNCHANGED otherVars

Next ==
    \/ GetRobustAnswer
    \/ CriticalTier
    \/ PatternTier
    \/ AgentTierReturns
    \/ AgentTierRaises
    \/ CrawlerTierReturns
    \/ CrawlerTierRaises
    \/ FallbackTier
    \/ QueryWithFaqContext
    \/ AiSearchReturns
    \/ AiSearchRaises
    \/ AiChat
    \/ AiOllama
    \/ SearchFaq
    \/ FileSectionsFound
    \/ FileSearchRaises
    \/ FileChat
    \/ FileOllama
    \/ Return

Spec == Init /\ [][Next]_vars

----------------------------------------------------------------------------
(* Properties of get_robust_answer *)

\* the entry point o has produced its result
Done(o) == op = o /\ pc = "done"

\* the method tag of each layer's answer
TierMethod ==
    [critical |-> "critical_hardcoded", pattern |-> "pattern_matched",
     agent |-> "intelligent_agent", crawler |-> "faq_crawler", fallback |-> "fallback"]

\* the entries of critical_answers each query holds three keywords of
CriticalEntriesOf ==
    [q \in Queries |->
        {i \in 1..Len(critical_answers) :
            Cardinality({k \in critical_answers[i].keywords : Contains(Lower(q), k)}) >= 3}]

\* the query holds at least three keywords of an entry of critical_answers
CriticalQuery == CriticalEntriesOf[query] # {}

\* the queries one of the patterns of the second layer is found in
PatternQueries == {q \in Queries : _check_pattern_answers(q) # None}

\* the condition under which the code lets a layer produce the answer, on the
\* query and on what the collaborators returned in this call
TierTriggered(t) ==
    CASE t = "critical" -> CriticalQuery
      [] t = "pattern" -> query \in PatternQueries
      [] t = "agent" -> deepTop # <<>> /\ deepTop[1] > 7000
      [] t = "crawler" -> corpusTop # <<>> /\ corpusTop[1] > 5
      [] t = "fallback" -> TRUE

\* C1: get_robust_answer runs the layers in the order critical, pattern,
\* deep search, corpus search, generic fallback and returns the answer of the
\* first layer whose trigger holds: the layers evaluated are a prefix of that
\* order, the method tag of the answer is that of the last layer evaluated,
\* that layer triggered and none before it did.
C1_FirstTriggeringTier ==
    Done("robust") =>
        /\ Len(evaluated) \in 1..5
        /\ evaluated = SubSeq(<<"critical", "pattern", "agent", "crawler", "fallback">>,
                              1, Len(evaluated))
        /\ answer # None
        /\ answer.method = TierMethod[evaluated[Len(evaluated)]]
        /\ TierTriggered(evaluated[Len(evaluated)])
        /\ \A i \in 1..(Len(evaluated) - 1) : ~TierTriggered(evaluated[i])

\* a call answered by the third layer after the first two declined
C1_Witness ==
    /\ Done("robust")
    /\ evaluated = <<"critical", "pattern", "agent">>
    /\ answer.method = "intelligent_agent"

\* C2: for a query with at least three keywords of a critical entry,
\* get_robust_answer never calls find_specific_answer or search_faqs and
\* starts no fetch, at any point of the call.
C2_CriticalShortCircuit ==
    (op = "robust" /\ CriticalQuery) =>
        /\ deepCalls = 0 /\ corpusCalls = 0 /\ fetches = 0
        /\ pc \in {"critical", "done"}
        /\ pc = "done" => answer.method = "critical_hardcoded"

\* a critical query answered
C2_Witness ==
    /\ Done("robust") /\ CriticalQuery
    /\ evaluated = <<"critical">>
    /\ deepCalls = 0 /\ corpusCalls = 0

\* C3, as the specification states it: through query_with_faq_context a query
\* with three keywords of a critical entry is answered by that entry, its
\* hardcoded text as the body and its authority among the sources, whatever
\* the corpus, the fetches and the model return.
C3_CriticalThroughEntryPoint ==
    (Done("ai") /\ CriticalQuery) =>
        \E i \in CriticalEntriesOf[query] :
            /\ Contains(answer.text, critical_answers[i].answer)
            /\ Contains(answer.text, Bullet \o critical_answers[i].source)

\* the four layers before the generic fallback all declined
AllDeclined ==
    /\ ~CriticalQuery
    /\ query \notin PatternQueries
    /\ ~(deepTop # <<>> /\ deepTop[1] > 7000)
    /\ ~(corpusTop # <<>> /\ corpusTop[1] > 5)

\* C4: get_robust_answer returns one candidate for every query, and when the
\* first four layers all decline it is the generic fallback: method fallback,
\* confidence 0.5, source "general_fallback".
C4_GenericFallback ==
    Done("robust") =>
        /\ answer # None
        /\ DOMAIN answer = {"question", "answer", "source", "confidence", "method"}
        /\ AllDeclined =>
              /\ answer.method = "fallback"
              /\ answer.question = query
              /\ answer.confidence = 5000
              /\ answer.source = "general_fallback"
              /\ answer.answer = FallbackAnswer

\* both searches ran without failing, neither triggered, the fallback answered
C4_Witness ==
    /\ Done("robust") /\ AllDeclined
    /\ deepCalls = 1 /\ corpusCalls = 1 /\ failed = {}
    /\ answer.method = "fallback"

----------------------------------------------------------------------------
(* Properties of query_with_faq_context and search_faq *)

\* C5: query_with_faq_context and search_faq never raise and return a
\* non-empty text for every query, whatever fails: the search, the fetches,
\* either model call, or the payload of a model call.
C5_NeverRaisesNeverEmpty ==
    (op \in {"ai", "file"}) =>
        /\ ~raised
        /\ pc = "done" => (answer # None /\ DOMAIN answer = {"text"} /\ answer.text # "")

\* the search itself failed and a reply was still returned
C5_Witness ==
    /\ Done("ai") /\ "search" \in failed
    /\ ~raised /\ answer.text # ""

\* the query names the identity card and a cost or damage word, the case
\* _emergency_fallback answers with the IC text
IcCostQueries ==
    {q \in Queries :
        /\ \E k \in {"cip", "chip", "ic", "kad pengenalan"} : Contains(Lower(q), k)
        /\ \E k \in {"bayar", "kos", "rosak"} : Contains(Lower(q), k)}

\* the reply made of the first-ranked record of the search and its website
BestResultReply ==
    [text |-> results[1].answer \o "\n\n**Sources:**\n* " \o results[1].website]

ModelTexts == {"Bayaran ialah **RM 10**.", "Bayaran ialah RM 10.", "Model returned no response."}

\* C7: with a non-empty ranked result and both model calls failed, the reply
\* is the text of the first-ranked candidate with its source attached (the
\* website for query_with_faq_context, the agency for search_faq) and holds
\* no model output.
C7_BestCandidateDirectly ==
    (op \in {"ai", "file"} /\ pc = "done" /\ {"chat", "ollama"} \subseteq failed) =>
        /\ results # <<>>
        /\ modelCalls = <<"chat", "ollama">>
        /\ op = "ai" => answer = BestResultReply
        /\ op = "file" =>
              answer.text = results[1].question \o "\n\n" \o results[1].answer
                            \o "\n\nSources:\n* " \o results[1].agency
        /\ \A reply \in ModelTexts : ~Contains(answer.text, reply)

\* search_faq after both model calls failed
C7_Witness ==
    /\ Done("file") /\ {"chat", "ollama"} \subseteq failed
    /\ Len(results) >= 2
    /\ Contains(answer.text, results[1].answer)

DeepSearchReturned ==
    /\ Done("robust")
    /\ Len(evaluated) >= 3 /\ evaluated[3] = "agent"
    /\ "agent" \notin failed

\* C9, as the specification states it: when the first two layers decline,
\* the deep-search layer produces the answer if and only if the top pooled
\* confidence is at least 0.7, exactly 0.7 included.
C9_DeepSearchAtLeast ==
    DeepSearchReturned =>
        (answer.method = "intelligent_agent" <=> (deepTop # <<>> /\ deepTop[1] >= 7000))

\* the fourth layer ran and search_faqs returned
CorpusSearchReturned ==
    /\ Done("robust")
    /\ Len(evaluated) >= 4 /\ evaluated[4] = "crawler"
    /\ "crawler" \notin failed

\* C10: when the first three layers decline, the corpus-search layer produces
\* the answer if and only if the top relevance score is above 5, with
\* confidence min(0.8, score / 10); a top score of 5 or less goes on to the
\* generic fallback.
C10_CorpusSearchAbove ==
    CorpusSearchReturned =>
        /\ answer.method = "faq_crawler" <=> (corpusTop # <<>> /\ corpusTop[1] > 5)
        /\ answer.method = "faq_crawler" =>
              answer.confidence = IF corpusTop[1] >= 8 THEN 8000 ELSE corpusTop[1] * 1000
        /\ answer.method # "faq_crawler" => answer.method = "fallback"

\* a top score of exactly 5 went on to the generic fallback
C10_Witness ==
    /\ CorpusSearchReturned
    /\ corpusTop = <<5>>
    /\ answer.method = "fallback"


----------------------------------------------------------------------------
(* IntelligentFAQAgent: the confidence of a candidate *)

BaseConfidence == 2000
KeywordStep == 1000
KeywordCap == 4000
AmountBonus == 3000
FreeBonus == 2000
PeriodBonus == 2000
DamageBonus == 1000
QuestionBonus == 1000
LengthBonus == 1000
LengthPenalty == 1000
FullConfidence == 10000
MinQuestionLength == 10
ShortQuestionLength == 200
MinGoodLength == 50
MaxGoodLength == 500

\* the strategy _analyze_query builds for a type: its keywords are the
\* profile's, and none for a general query
StrategyOf(type) ==
    [type |-> type,
     keywords |-> UNION {p.keywords : p \in {question_patterns[i] : i \in
                            {j \in 1..Len(question_patterns) : question_patterns[j].name = type}}}]

\* re.search(r'rm\s*\d+', s)
HasAmount(s) ==
    \E i \in 1..Len(s) : \E j \in (i + 2)..Len(s) :
        /\ OccursAt(s, "rm", i)
        /\ \A k \in (i + 2)..(j - 1) : IsSpace(CharAt(s, k))
        /\ CharAt(s, j) \in Digits

\* str.startswith, str.endswith
StartsWith(s, k) == OccursAt(s, k, 1)
EndsWith(s, k) == OccursAt(s, k, Len(s) - Len(k) + 1)

question_indicators ==
    {"?", "adakah", "bagaimana", "apakah", "mengapa", "bila", "kapan", "siapa",
     "di mana", "berapa", "what", "how", "when", "where", "why", "who", "which",
     "can", "could", "should", "would"}

question_words ==
    {"adakah", "bagaimana", "apakah", "what", "how", "when", "where", "why", "who"}

\* _looks_like_question
_looks_like_question(text) ==
    IF Len(text) < MinQuestionLength THEN FALSE
    ELSE LET text_lower == Strip(Lower(text))
             has_indicator == \E indicator \in question_indicators :
                                 Contains(text_lower, indicator)
             ends_with_question == EndsWith(Strip(text), "?")
             starts_with_question_word == \E word \in question_words :
                                             StartsWith(text_lower, word)
         IN  has_indicator /\ (\/ ends_with_question
                               \/ starts_with_question_word
                               \/ Len(text) < ShortQuestionLength)

\* the sum _calculate_confidence builds before it clips it.  The sum is taken
\* in exact units; the double the code computes lies within one unit of it.
ConfidenceSum(question, answer_text, strategy) ==
    LET answer_lower == Lower(answer_text)
        question_lower == Lower(question)
        keyword_matches ==
            Cardinality({keyword \in strategy.keywords :
                            Contains(answer_lower, keyword) \/ Contains(question_lower, keyword)})
        answer_length == Len(answer_text)
    IN  BaseConfidence
        + Min(KeywordCap, keyword_matches * KeywordStep)
        + (IF strategy.type = "ic_chip_cost"
           THEN (IF HasAmount(answer_lower) THEN AmountBonus ELSE 0)
                + (IF Contains(answer_lower, "percuma") \/ Contains(answer_lower, "free")
                   THEN FreeBonus ELSE 0)
                + (IF Contains(answer_lower, "satu tahun") \/ Contains(answer_lower, "1 tahun")
                   THEN PeriodBonus ELSE 0)
                + (IF Contains(answer_lower, "kerosakan") \/ Contains(answer_lower, "rosak")
                   THEN DamageBonus ELSE 0)
           ELSE 0)
        + (IF _looks_like_question(question) THEN QuestionBonus ELSE 0)
        + (IF MinGoodLength <= answer_length /\ answer_length <= MaxGoodLength
           THEN LengthBonus
           ELSE IF answer_length > MaxGoodLength THEN 0 - LengthPenalty ELSE 0)

\* a confidence returned as summed
ConfidenceUnclipped(question, answer_text, strategy) ==
    ConfidenceSum(question, answer_text, strategy)

\* _calculate_confidence
_calculate_confidence(question, answer_text, strategy) ==
    Min(FullConfidence, ConfidenceSum(question, answer_text, strategy))

RECURSIVE Repeat(_, _)
\* s * n
Repeat(s, n) == IF n = 0 THEN "" ELSE s \o Repeat(s, n - 1)

\* Candidate pairs the passes hand to _calculate_confidence: questions with
\* and without a question's look, answers made of the phrases the bonuses
\* look for, short, of a good length and too long.
CandidateQuestions == {"Berapa bayaran ganti cip?", "Kos dan harga", "Kad pengenalan IC"}
AnswerPhrases == <<"RM 10", "PERCUMA", "1 tahun", "rosak", "cip kos harga bayaran">>
AnswerFill == {"", Repeat("sila ke kaunter JPN. ", 3), Repeat("sila ke kaunter JPN. ", 26)}
CandidateAnswers ==
    {JoinWords(SelectSeq(AnswerPhrases, LAMBDA p : p \in chosen)) \o fill :
        chosen \in SUBSET {AnswerPhrases[i] : i \in 1..Len(AnswerPhrases)}, fill \in AnswerFill}
StrategyTypes == {"general"} \cup {question_patterns[i].name : i \in 1..Len(question_patterns)}

PairInputs ==
    [kind : {"pair"}, question : CandidateQuestions, answer : CandidateAnswers,
     type : StrategyTypes]

\* the sentences of a page as _deep_text_mining scores them
MinedSentences ==
    [profile : StrategyTypes \ {"general"}, keywords : 0..3, signals : 0..5,
     question : {"Berapa bayaran"}, answer : {"RM 10 selepas 1 tahun"}]
MiningInputs == [kind : {"sentence"}, sentence : MinedSentences, type : StrategyTypes]

TierInputs == [kind : {"tier"}, query : Queries]

\* an answer of one layer of get_robust_answer to q, or None
TierAnswers(q) ==
    {_check_critical_answers(q), _check_pattern_answers(q), _get_fallback_response(q)}
    \cup {AgentLayer(Returned(find_specific_answer(q, fetched, order))).answer :
            fetched \in DeepFetches, order \in CompletionOrders}
    \cup {CrawlerLayer(Returned(search_faqs(q, CrawlerMaxResults, fetched, order))).answer :
            fetched \in CorpusFetches, order \in CompletionOrders}

\* a pattern or semantic pass scores a pair
CalculateConfidence ==
    /\ input # None /\ output = None /\ input.kind = "pair"
    /\ output' = [confidence |->
                     _calculate_confidence(input.question, input.answer, StrategyOf(input.type))]
    /\ UNCHANGED <<engineVars, cacheVars, input>>

\* the mining pass scores a sentence
MineSentence ==
    /\ input # None /\ output = None /\ input.kind = "sentence"
    /\ output' = [candidates |->
                     _deep_text_mining(1, [mining |-> <<input.sentence>>], input.type)]
    /\ UNCHANGED <<engineVars, cacheVars, input>>

\* a layer of get_robust_answer answers, or declines
TierCandidate ==
    /\ input # None /\ output = None /\ input.kind = "tier"
    /\ \E a \in TierAnswers(input.query) : output' = [candidate |-> a]
    /\ UNCHANGED <<engineVars, cacheVars, input>>

ConfidenceInit ==
    /\ Idle /\ ColdCache /\ output = None
    /\ \/ input \in PairInputs
       \/ input \in MiningInputs
       \/ input \in TierInputs

ConfidenceNext == CalculateConfidence \/ MineSentence \/ TierCandidate

ConfidenceSpec == ConfidenceInit /\ [][ConfidenceNext]_vars

IsConfidence(c) == c >= 0 /\ c <= FullConfidence

\* C11: every candidate has a confidence in [0, 1]: each pair scored by
\* _calculate_confidence, each candidate of the mining pass, and each answer
\* of a layer of get_robust_answer.
C11_ConfidenceInUnitInterval ==
    output # None =>
        CASE input.kind = "pair" -> IsConfidence(output.confidence)
          [] input.kind = "sentence" ->
                \A i \in 1..Len(output.candidates) : IsConfidence(output.candidates[i].confidence)
          [] input.kind = "tier" ->
                output.candidate # None => IsConfidence(output.candidate.confidence)

\* a pair whose sum exceeds 1 has been scored and clipped, a sentence has been
\* mined at the cap, or the agent's layer has answered
C11_Witness ==
    /\ output # None
    /\ input.kind = "pair"
    /\ ConfidenceSum(input.question, input.answer, StrategyOf(input.type)) > FullConfidence
    /\ output.confidence = FullConfidence


----------------------------------------------------------------------------
(* FAQCrawler: the cache of scrape_single_faq *)

cache_duration == 3600

\* The calls of scrape_single_faq in one run.
MaxCalls == 3

\* The seconds between one call and the next.
Delays == {1, cache_duration - 1, cache_duration + 1}

\* What a request made by scrape_single_faq can bring back: a page with two
\* items and one where the extractor finds none.
CachePages == {ExtractedPage(<<FaqCost, FaqChip>>), ExtractedPage(<<>>)}

Sites == 1..Len(FAQ_WEBSITES)

\* f with the value of key k set to v: d[k] = v on a dictionary
Store(f, k, v) == (k :> v) @@ f

\* an entry that is still valid after exactly cache_duration seconds
CacheValidThrough(url, t) ==
    url \in DOMAIN cache /\ t - cacheTimestamp[url] <= cache_duration

\* _is_cache_valid at time t
_is_cache_valid(url, t) ==
    IF url \notin DOMAIN cache THEN FALSE
    ELSE t - cacheTimestamp[url] < cache_duration

\* an entry is written even when the request failed
StoresAlways(hit, fetched) == ~hit

\* whether scrape_single_faq reaches its two cache assignments: not on a hit,
\* which returns before, and not after an exception, which skips them
StoresEntry(hit, fetched) == ~hit /\ fetched # FetchFailed

\* scrape_single_faq(FAQ_WEBSITES[site]), called d seconds after the call
\* before, with no other call running.  A valid entry is returned without a
\* request.  Otherwise the request is made: what it fetches is extracted,
\* stored with the time, and returned; a request that fails is caught and []
\* is returned, the cache left as it is.
ScrapeSingleFaq ==
    /\ Idle /\ NoCall
    /\ Len(calls) < MaxCalls
    /\ \E site \in Sites, d \in Delays, fetched \in CachePages \cup {FetchFailed} :
          LET at == now + d
              hit == _is_cache_valid(site, at)
              faq_items == scrape_single_faq(site, fetched)
              stores == StoresEntry(hit, fetched)
          IN  /\ now' = at
              /\ cache' = IF stores THEN Store(cache, site, faq_items) ELSE cache
              /\ cacheTimestamp' = IF stores THEN Store(cacheTimestamp, site, at)
                                   ELSE cacheTimestamp
              /\ calls' = Append(calls,
                                 [site |-> site, at |-> at, io |-> ~hit, stored |-> stores,
                                  failed |-> ~hit /\ fetched = FetchFailed,
                                  items |-> IF hit THEN cache[site] ELSE faq_items])
    /\ UNCHANGED <<engineVars, pureVars>>

CacheSpec == Init /\ [][ScrapeSingleFaq]_vars

\* the calls before call i that stored an entry for its source
StoresBefore(i) == {j \in 1..(i - 1) : calls[j].site = calls[i].site /\ calls[j].stored}

\* the last of a non-empty set of calls
Latest(js) == CHOOSE j \in js : \A k \in js : k <= j

\* C12: a call of scrape_single_faq makes its request exactly when no entry
\* for its source was stored less than 3600 s before; a call that makes none
\* returns the items of the call that stored the entry, which are also what
\* the last call for the source returned.
C12_CacheTtl ==
    \A i \in 1..Len(calls) :
        LET fresh == {j \in StoresBefore(i) : calls[i].at - calls[j].at < cache_duration}
            before == {j \in 1..(i - 1) : calls[j].site = calls[i].site}
        IN  /\ calls[i].io <=> fresh = {}
            /\ ~calls[i].io =>
                  /\ calls[i].items = calls[Latest(StoresBefore(i))].items
                  /\ calls[i].items = calls[Latest(before)].items

\* an entry stored at T has been returned without a request at T + 3599 and
\* fetched again at T + 3600, the new page returned
C12_Witness ==
    /\ Len(calls) = 3
    /\ calls[1].stored /\ calls[2].site = calls[1].site /\ calls[3].site = calls[1].site
    /\ calls[2].at = calls[1].at + cache_duration - 1 /\ ~calls[2].io
    /\ calls[3].at = calls[1].at + cache_duration /\ calls[3].io /\ calls[3].stored
    /\ calls[3].items # calls[1].items


----------------------------------------------------------------------------
(* The batch fetches: scrape_all_faqs and find_specific_answer *)

\* Queries of each type _analyze_query tells apart.
BatchQueries == {"dokumen", "cip IC", "syarat pasport"}

CorpusBatches == [kind : {"corpus"}, fetched : CorpusFetches, order : CompletionOrders]
DeepBatches ==
    [kind : {"deep"}, query : BatchQueries, fetched : DeepFetches, order : CompletionOrders]

\* scrape_all_faqs with every cache entry expired.  Each future returns what
\* scrape_single_faq returns, which has caught the failure of its request.
ScrapeAllFaqs ==
    /\ input # None /\ output = None /\ input.kind = "corpus"
    /\ output' = [raises |-> FALSE, items |-> scrape_all_faqs(input.fetched, input.order)]
    /\ UNCHANGED <<engineVars, cacheVars, input>>

\* find_specific_answer
FindSpecificAnswer ==
    /\ input # None /\ output = None /\ input.kind = "deep"
    /\ output' = [raises |-> FALSE,
                  items |-> find_specific_answer(input.query, input.fetched, input.order)]
    /\ UNCHANGED <<engineVars, cacheVars, input>>

BatchInit ==
    /\ Idle /\ ColdCache /\ output = None
    /\ \/ input \in CorpusBatches
       \/ input \in DeepBatches

BatchNext == ScrapeAllFaqs \/ FindSpecificAnswer

BatchSpec == BatchInit /\ [][BatchNext]_vars

\* the sources of a batch whose request failed
FailedSources(fetched) == {i \in Sites : fetched[i] = FetchFailed}

\* a page on which no pass finds a candidate
PageWithoutCandidates == [pattern |-> <<>>, semantic |-> <<>>, mining |-> <<>>]

\* C13: a batch never raises, whatever sources fail.  The result of
\* scrape_all_faqs holds no item of a failed source and, for each source that
\* succeeded, exactly the items of its page in their order; the result of
\* find_specific_answer holds no candidate of a failed source and is the
\* result the batch has when the failed sources answer with a page that has
\* no candidate.
C13_BatchIsolation ==
    output # None /\ input.kind \in {"corpus", "deep"} =>
        LET down == FailedSources(input.fetched)
        IN  /\ ~output.raises
            /\ \A k \in 1..Len(output.items) : \A i \in down :
                  output.items[k].website # WebsiteOf[i]
            /\ input.kind = "corpus" =>
                  \A i \in Sites \ down :
                      LET own == SelectSeq(output.items, LAMBDA f : f.url = FAQ_WEBSITES[i])
                      IN  /\ Len(own) = Len(input.fetched[i].items)
                          /\ \A k \in 1..Len(own) :
                                /\ own[k].question = input.fetched[i].items[k].question
                                /\ own[k].answer = input.fetched[i].items[k].answer
            /\ input.kind = "deep" =>
                  output.items = find_specific_answer(
                      input.query,
                      [i \in Sites |-> IF i \in down THEN PageWithoutCandidates
                                       ELSE input.fetched[i]],
                      input.order)

\* a batch in which one source failed and the other one's items came back
C13_Witness ==
    /\ output # None /\ input.kind = "corpus"
    /\ Cardinality(FailedSources(input.fetched)) = 1
    /\ Len(output.items) = 2

\* a deep search in which one source failed and the other one's candidates
\* came back
C13_WitnessDeep ==
    /\ output # None /\ input.kind = "deep"
    /\ Cardinality(FailedSources(input.fetched)) = 1
    /\ output.items # <<>>


----------------------------------------------------------------------------
(* FAQCrawler: overlapping calls of scrape_single_faq for one source *)

\* The threads that call scrape_single_faq, each once.
Threads == {"a", "b", "c"}

\* The cache periods the clock runs through.
MaxPeriods == 1

\* The source all of them ask for: the first one configured.
SharedSite == CHOOSE i \in Sites : \A j \in Sites : i <= j

\* a call not yet made
NotCalled ==
    [pc |-> "idle", faq_items |-> <<>>, stamp |-> <<>>, result |-> <<>>,
     keyError |-> FALSE, requested |-> FALSE, fetched |-> FALSE]

\* thread t moves to position p
Goto(t, p) == calls' = [calls EXCEPT ![t].pc = p]

\* scrape_single_faq(url) is called
CallScrape(t) ==
    /\ calls[t].pc = "idle"
    /\ Goto(t, "in_cache")
    /\ UNCHANGED <<engineVars, pureVars, now, cache, cacheTimestamp>>

\* _is_cache_valid: if url not in self._cache: return False
CheckInCache(t) ==
    /\ calls[t].pc = "in_cache"
    /\ Goto(t, IF SharedSite \in DOMAIN cache THEN "timestamp" ELSE "get")
    /\ UNCHANGED <<engineVars, pureVars, now, cache, cacheTimestamp>>

\* _is_cache_valid: return time.time() - self._cache_timestamp[url] < self.cache_duration.
\* A missing key raises KeyError, which scrape_single_faq catches: it returns [].
CheckTimestamp(t) ==
    /\ calls[t].pc = "timestamp"
    /\ IF SharedSite \notin DOMAIN cacheTimestamp
       THEN calls' = [calls EXCEPT ![t].pc = "done", ![t].keyError = TRUE, ![t].result = <<>>]
       ELSE Goto(t, IF now - cacheTimestamp[SharedSite] < cache_duration
                    THEN "read" ELSE "get")
    /\ UNCHANGED <<engineVars, pureVars, now, cache, cacheTimestamp>>

\* return self._cache[url]
ReturnCached(t) ==
    /\ calls[t].pc = "read"
    /\ calls' = [calls EXCEPT ![t].pc = "done", ![t].result = cache[SharedSite]]
    /\ UNCHANGED <<engineVars, pureVars, now, cache, cacheTimestamp>>

\* session.get, raise_for_status, BeautifulSoup, _extract_faq_content: a
\* failure is caught and [] returned
Request(t) ==
    /\ calls[t].pc = "get"
    /\ \E fetched \in CachePages \cup {FetchFailed} :
          calls' = IF fetched = FetchFailed
                   THEN [calls EXCEPT ![t].pc = "done", ![t].requested = TRUE,
                                      ![t].result = <<>>]
                   ELSE [calls EXCEPT ![t].pc = "store_items", ![t].requested = TRUE,
                                      ![t].fetched = TRUE,
                                      ![t].faq_items = scrape_single_faq(SharedSite, fetched)]
    /\ UNCHANGED <<engineVars, pureVars, now, cache, cacheTimestamp>>

\* self._cache[url] = faq_items
StoreItems(t) ==
    /\ calls[t].pc = "store_items"
    /\ cache' = Store(cache, SharedSite, calls[t].faq_items)
    /\ Goto(t, "store_time")
    /\ UNCHANGED <<engineVars, pureVars, now, cacheTimestamp>>

\* self._cache_timestamp[url] = time.time(); return faq_items
StoreTime(t) ==
    /\ calls[t].pc = "store_time"
    /\ cacheTimestamp' = Store(cacheTimestamp, SharedSite, now)
    /\ calls' = [calls EXCEPT ![t].pc = "done", ![t].stamp = <<now>>,
                              ![t].result = calls[t].faq_items]
    /\ UNCHANGED <<engineVars, pureVars, now, cache>>

\* a cache period passes
Expire ==
    /\ now < MaxPeriods * cache_duration
    /\ now' = now + cache_duration
    /\ UNCHANGED <<engineVars, pureVars, cache, cacheTimestamp, calls>>

RaceInit ==
    /\ Idle /\ NoCall
    /\ now = 0 /\ cache = <<>> /\ cacheTimestamp = <<>>
    /\ calls = [t \in Threads |-> NotCalled]

RaceNext ==
    \/ \E t \in Threads : CallScrape(t)
    \/ \E t \in Threads : CheckInCache(t)
    \/ \E t \in Threads : CheckTimestamp(t)
    \/ \E t \in Threads : ReturnCached(t)
    \/ \E t \in Threads : Request(t)
    \/ \E t \in Threads : StoreItems(t)
    \/ \E t \in Threads : StoreTime(t)
    \/ Expire

RaceSpec == RaceInit /\ [][RaceNext]_vars

\* the entry of the source is absent, or the items and the time one finished
\* call stored
WholeEntry ==
    SharedSite \in DOMAIN cache =>
        /\ SharedSite \in DOMAIN cacheTimestamp
        /\ \E u \in Threads :
              /\ calls[u].pc = "done" /\ calls[u].stamp # <<>>
              /\ cache[SharedSite] = calls[u].faq_items
              /\ cacheTimestamp[SharedSite] = calls[u].stamp[1]

\* some call has fetched items for the source
FetchedItems == \E u \in Threads : calls[u].fetched /\ calls[u].faq_items # <<>>

\* C14: whatever the interleaving of the calls for one source, no call that
\* has found the source in the cache and has yet to read the entry faces a
\* partial one (items without time, or items of one call with the time of
\* another), no validity check fails, and no call that made no request of its
\* own returns nothing for a source whose items were fetched.
C14_AtomicReplacement ==
    \A t \in Threads :
        /\ calls[t].pc \in {"timestamp", "read"} => WholeEntry
        /\ ~calls[t].keyError
        /\ calls[t].pc = "done" /\ ~calls[t].requested /\ FetchedItems =>
              calls[t].result # <<>>


----------------------------------------------------------------------------
(* FAQCrawler: search_faqs run by two callers on one cached corpus *)

\* The callers of search_faqs, each once.
Rankers == {"a", "b"}

\* The queries they ask.
RankQueries == {"cip", "pasport", "bayaran cip"}

\* the cached FAQItem object a list holds at a position: the k-th item of the
\* entry of a source
Ref(site, k) == [site |-> site, k |-> k]
Item(ref) == cache[ref.site][ref.k]

RECURSIVE RefsFrom(_, _)
\* scrape_all_faqs with every entry valid: the cached lists, pooled as the
\* futures complete, from the k-th completion on
RefsFrom(order, k) ==
    IF k > Len(order) THEN <<>>
    ELSE [i \in 1..Len(cache[order[k]]) |-> Ref(order[k], i)] \o RefsFrom(order, k + 1)

\* no call of search_faqs yet
NotSearching ==
    [pc |-> "idle", query |-> "", all_faqs |-> <<>>, i |-> 0, relevant_faqs |-> <<>>,
     result |-> <<>>, seen |-> <<>>]

\* search_faqs(q, max_results=3) is called: all_faqs = self.scrape_all_faqs()
SearchFaqs(t) ==
    /\ calls[t].pc = "idle"
    /\ \E q \in RankQueries, order \in CompletionOrders :
          calls' = [calls EXCEPT ![t] = [NotSearching EXCEPT
                        !.pc = "score", !.query = q, !.all_faqs = RefsFrom(order, 1), !.i = 1]]
    /\ UNCHANGED <<engineVars, pureVars, now, cache, cacheTimestamp>>

\* one round of "for faq in all_faqs": faq.relevance_score = score
ScoreItem(t) ==
    /\ calls[t].pc = "score" /\ calls[t].i <= Len(calls[t].all_faqs)
    /\ LET ref == calls[t].all_faqs[calls[t].i]
       IN  cache' = [cache EXCEPT ![ref.site][ref.k].relevance_score =
                         Relevance(calls[t].query, Item(ref))]
    /\ calls' = [calls EXCEPT ![t].i = calls[t].i + 1]
    /\ UNCHANGED <<engineVars, pureVars, now, cacheTimestamp>>

\* relevant_faqs = [faq for faq in all_faqs if faq.relevance_score > 0]
FilterRelevant(t) ==
    /\ calls[t].pc = "score" /\ calls[t].i > Len(calls[t].all_faqs)
    /\ calls' = [calls EXCEPT
                    ![t].pc = "sort",
                    ![t].relevant_faqs =
                        SelectSeq(calls[t].all_faqs, LAMBDA ref : Item(ref).relevance_score > 0)]
    /\ UNCHANGED <<engineVars, pureVars, now, cache, cacheTimestamp>>

\* relevant_faqs.sort(key=..., reverse=True); return relevant_faqs[:max_results]
SortAndReturn(t) ==
    /\ calls[t].pc = "sort"
    /\ LET relevant_faqs == calls[t].relevant_faqs
           keys == [i \in 1..Len(relevant_faqs) |-> Item(relevant_faqs[i]).relevance_score]
       IN  calls' = [calls EXCEPT
                        ![t].pc = "returned",
                        ![t].result = Take(SortDescending(relevant_faqs, keys),
                                           CrawlerMaxResults)]
    /\ UNCHANGED <<engineVars, pureVars, now, cache, cacheTimestamp>>

\* the caller reads the records it was handed: faq_results[0].relevance_score
\* in get_robust_answer, result.relevance_score in query_with_faq_context
ReadResults(t) ==
    /\ calls[t].pc = "returned"
    /\ calls' = [calls EXCEPT
                    ![t].pc = "done",
                    ![t].seen = [i \in 1..Len(calls[t].result) |-> Item(calls[t].result[i])]]
    /\ UNCHANGED <<engineVars, pureVars, now, cache, cacheTimestamp>>

\* both sources fetched, their entries valid
RankInit ==
    /\ Idle /\ NoCall
    /\ now = 0
    /\ cache = [i \in Sites |->
                   scrape_single_faq(i, IF i = SharedSite THEN ExtractedPage(<<FaqCost, FaqChip>>)
                                        ELSE ExtractedPage(<<FaqPassport>>))]
    /\ cacheTimestamp = [i \in Sites |-> now]
    /\ calls = [t \in Rankers |-> NotSearching]

RankNext ==
    \/ \E t \in Rankers : SearchFaqs(t)
    \/ \E t \in Rankers : ScoreItem(t)
    \/ \E t \in Rankers : FilterRelevant(t)
    \/ \E t \in Rankers : SortAndReturn(t)
    \/ \E t \in Rankers : ReadResults(t)

RankSpec == RankInit /\ [][RankNext]_vars

\* what the query of caller t gets when it is ranked alone: the records of
\* its pooled list (question, answer, source) with the scores of the query
RankedAlone(t) ==
    LET q == calls[t].query
        all_faqs == [i \in 1..Len(calls[t].all_faqs) |->
                        [Item(calls[t].all_faqs[i]) EXCEPT
                            !.relevance_score = Relevance(q, Item(calls[t].all_faqs[i]))]]
        relevant_faqs == SelectSeq(all_faqs, LAMBDA faq : faq.relevance_score > 0)
    IN  Take(SortDescending(relevant_faqs,
                            [i \in 1..Len(relevant_faqs) |-> relevant_faqs[i].relevance_score]),
             CrawlerMaxResults)

\* C15: two queries ranked at the same time on one cached corpus each get the
\* records, the scores and the order they get when ranked alone, and so the
\* top score and the confidence derived from it.
C15_QueryIsolation ==
    \A t \in Rankers : calls[t].pc = "done" => calls[t].seen = RankedAlone(t)


----------------------------------------------------------------------------
(* The rankers: search_faqs and _find_relevant_sections *)

\* Queries for the rankers: the empty one, which every question holds, words
\* of one record and of several.
RankerQueries == {"", "cip", "pasport", "berapa cip", "cip pasport", "dokumen"}

\* The caps the callers of search_faqs pass, and the smallest one.
Caps == {1, CrawlerMaxResults, DefaultMaxResults}

RankInputs ==
    [kind : {"search_faqs"}, query : RankerQueries, cap : Caps, fetched : CorpusFetches,
     order : CompletionOrders]
SectionInputs ==
    [kind : {"sections"}, query : RankerQueries,
     faq_sections : {<<>>, FaqFile, LongFaqFile}]

\* search_faqs(query, max_results) with every cache entry expired
ApplySearchFaqs ==
    /\ input # None /\ output = None /\ input.kind = "search_faqs"
    /\ output' = [items |-> search_faqs(input.query, input.cap, input.fetched, input.order)]
    /\ UNCHANGED <<engineVars, cacheVars, input>>

\* _find_relevant_sections(query)
ApplyFindRelevantSections ==
    /\ input # None /\ output = None /\ input.kind = "sections"
    /\ output' = [items |-> _find_relevant_sections(input.query, input.faq_sections)]
    /\ UNCHANGED <<engineVars, cacheVars, input>>

RankerInit ==
    /\ Idle /\ ColdCache /\ output = None
    /\ \/ input \in RankInputs
       \/ input \in SectionInputs

RankerNext == ApplySearchFaqs \/ ApplyFindRelevantSections

RankerSpec == RankerInit /\ [][RankerNext]_vars

\* the corpus of the call in its order, each record with its score
ScoredCorpus ==
    IF input.kind = "search_faqs"
    THEN LET all_faqs == scrape_all_faqs(input.fetched, input.order)
         IN  [i \in 1..Len(all_faqs) |->
                 [all_faqs[i] EXCEPT !.relevance_score = Relevance(input.query, all_faqs[i])]]
    ELSE [i \in 1..Len(input.faq_sections) |->
             [agency |-> input.faq_sections[i].agency,
              category |-> input.faq_sections[i].category,
              question |-> input.faq_sections[i].question,
              answer |-> input.faq_sections[i].answer,
              full_text |-> input.faq_sections[i].full_text,
              relevance_score |-> SectionScore(input.query, i)]]

\* the cap of the call
CapOfCall == IF input.kind = "search_faqs" THEN input.cap ELSE SectionLimit

\* the reference: of the records with a score above 0, the one that has k - 1
\* records before it, a record being before another when its score is higher,
\* or equal and its place in the corpus earlier; cut at the cap
ReferenceRanking ==
    LET corpus == ScoredCorpus
        kept == {i \in 1..Len(corpus) : corpus[i].relevance_score > 0}
        ahead(i) == {j \in kept :
                        \/ corpus[j].relevance_score > corpus[i].relevance_score
                        \/ corpus[j].relevance_score = corpus[i].relevance_score /\ j < i}
    IN  [k \in 1..Min(CapOfCall, Cardinality(kept)) |->
            corpus[CHOOSE i \in kept : Cardinality(ahead(i)) = k - 1]]

\* C16: the result of either ranker is the reference ranking; no record of it
\* has a score of 0 or less, the scores do not increase along it, and it is
\* no longer than the cap.
C16_RankerEqualsReference ==
    output # None /\ input.kind \in {"search_faqs", "sections"} =>
        /\ output.items = ReferenceRanking
        /\ \A k \in 1..Len(output.items) : output.items[k].relevance_score > 0
        /\ \A k \in 1..(Len(output.items) - 1) :
              output.items[k].relevance_score >= output.items[k + 1].relevance_score
        /\ Len(output.items) <= CapOfCall

\* a ranking that dropped a record, kept two records of equal score in corpus
\* order and was cut at the cap
C16_Witness ==
    /\ output # None /\ input.kind = "sections"
    /\ Len(output.items) = SectionLimit
    /\ Len(input.faq_sections) > SectionLimit
    /\ \E k \in 1..(Len(output.items) - 1) :
          /\ output.items[k].relevance_score = output.items[k + 1].relevance_score
          /\ output.items[k] # output.items[k + 1]

\* search_faqs cut at a cap below the number of records with a score
C16_WitnessCrawler ==
    /\ output # None /\ input.kind = "search_faqs"
    /\ Len(output.items) = input.cap
    /\ Cardinality({i \in 1..Len(ScoredCorpus) : ScoredCorpus[i].relevance_score > 0})
          > input.cap
    /\ Cardinality({i \in 1..Len(ScoredCorpus) : ScoredCorpus[i].relevance_score <= 0}) > 0


----------------------------------------------------------------------------
(* The scores of the rankers and the query phrase in the answer *)

\* Queries of one and two words.
PhraseQueries == {"cip", "berapa cip", "syarat pasport", "IC rosak", "dokumen"}

\* Records: the items of the crawler's pages and the pairs of the file.
PhraseRecords ==
    {FaqChip, FaqPassport, FaqCost}
    \cup {[question |-> FaqFile[i].question, answer |-> FaqFile[i].answer] :
            i \in 1..Len(FaqFile)}

\* text with phrase added as words of its own behind its first place words
AddPhrase(text, phrase, place) ==
    LET words == Split(text, " ")
    IN  JoinWords(SubSeq(words, 1, place) \o <<phrase>> \o SubSeq(words, place + 1, Len(words)))

\* The words of an answer the phrase can be put behind.
MaxPlace == 4

PhraseInputs ==
    {[kind |-> "phrase", query |-> q, record |-> r, place |-> p] :
        q \in PhraseQueries, r \in PhraseRecords, p \in 0..MaxPlace}

\* the record of the call with the query in its answer
WithPhrase ==
    [input.record EXCEPT
        !.answer = AddPhrase(input.record.answer, input.query,
                             Min(input.place, Len(Split(input.record.answer, " "))))]

\* the heading the pairs stand under in the file
PhraseTitle == "KAD PENGENALAN (MyKad)"

\* search_faqs scores the record and the record with the phrase
ScoreItems ==
    /\ input # None /\ output = None /\ input.kind = "phrase"
    /\ output' = [ranker |-> "search_faqs",
                  without |-> Relevance(input.query, input.record),
                  with |-> Relevance(input.query, WithPhrase)]
    /\ UNCHANGED <<engineVars, cacheVars, input>>

\* _find_relevant_sections scores the section and the section with the phrase
ScoreSections ==
    /\ input # None /\ output = None /\ input.kind = "phrase"
    /\ output' = [ranker |-> "sections",
                  without |-> SectionPoints(input.query, SectionViewOf(
                                  Section(PhraseTitle, input.record.question,
                                          input.record.answer))),
                  with |-> SectionPoints(input.query, SectionViewOf(
                               Section(PhraseTitle, WithPhrase.question, WithPhrase.answer)))]
    /\ UNCHANGED <<engineVars, cacheVars, input>>

PhraseInit == Idle /\ ColdCache /\ output = None /\ input \in PhraseInputs

PhraseNext == ScoreItems \/ ScoreSections

PhraseSpec == PhraseInit /\ [][PhraseNext]_vars

\* C17: of two records that differ only in that the answer of one holds the
\* query phrase in addition, the one with the phrase scores at least as high,
\* under either ranker.
C17_PhraseNeverLowersScore ==
    output # None /\ input.kind = "phrase" => output.with >= output.without

\* search_faqs has scored a record whose question holds the phrase already, so
\* that the phrase in the answer earns no bonus, and its answer did not hold it
C17_Witness ==
    /\ output # None /\ input.kind = "phrase" /\ output.ranker = "search_faqs"
    /\ Contains(Lower(input.record.question), Lower(input.query))
    /\ ~Contains(Lower(input.record.answer), Lower(input.query))
    /\ output.with >= output.without /\ output.without > 0

\* _find_relevant_sections has scored a section higher for the phrase
C17_WitnessSections ==
    /\ output # None /\ input.kind = "phrase" /\ output.ranker = "sections"
    /\ ~Contains(Lower(input.record.answer), Lower(input.query))
    /\ output.with > output.without /\ output.without > 0


----------------------------------------------------------------------------
(* find_specific_answer: the candidates it returns *)

\* a candidate of a pass, found under the profile ic_chip_cost
ChipCandidate(n, c) ==
    [profile |-> "ic_chip_cost", question |-> "Berapa bayaran cip rosak?",
     answer |-> "Bayaran " \o n, confidence |-> c]

\* Pages with more candidates than find_specific_answer returns: four of at
\* least 0.7, one of them at 0.7 itself, and seven below it.
PageManyHigh ==
    [pattern |-> << ChipCandidate("a", 9000), ChipCandidate("b", 7000),
                    ChipCandidate("c", 8000), ChipCandidate("d", 7001) >>,
     semantic |-> << ChipCandidate("e", 6000) >>,
     mining |-> <<>>]
PageManyLow ==
    [pattern |-> <<>>,
     semantic |-> << ChipCandidate("f", 6000), ChipCandidate("g", 5000),
                     ChipCandidate("h", 4000), ChipCandidate("i", 6999),
                     ChipCandidate("j", 3100), ChipCandidate("k", 5000) >>,
     mining |-> << [profile |-> "ic_chip_cost", keywords |-> 1, signals |-> 2,
                    question |-> "Berapa bayaran", answer |-> "RM 10 bagi cip"] >>]

SelectionPages == {PageManyHigh, PageManyLow, PageHigh}
SelectionInputs ==
    [kind : {"deep"}, query : BatchQueries, fetched : [Sites -> SelectionPages \cup {FetchFailed}],
     order : CompletionOrders]

SelectionInit == Idle /\ ColdCache /\ output = None /\ input \in SelectionInputs

SelectionSpec == SelectionInit /\ [][FindSpecificAnswer]_vars

\* the candidates of all passes and all sources of the call
Pool ==
    LET type == _analyze_query(input.query)
        perSite == [i \in Sites |-> _search_website_intelligently(i, input.fetched[i], type)]
    IN  Extend(perSite, [i \in Sites |-> i], 1)

\* of the candidates cs, by descending confidence, the confidence of the k-th
KthConfidence(cs, k) ==
    CHOOSE c \in {cs[i].confidence : i \in 1..Len(cs)} :
        /\ Cardinality({i \in 1..Len(cs) : cs[i].confidence > c}) < k
        /\ Cardinality({i \in 1..Len(cs) : cs[i].confidence >= c}) >= k

\* items are the n best of the candidates cs, best first
BestOf(items, cs, n) ==
    /\ Len(items) = Min(n, Len(cs))
    /\ \A k \in 1..Len(items) :
          /\ items[k].confidence = KthConfidence(cs, k)
          /\ Cardinality({j \in 1..Len(items) : items[j] = items[k]})
                <= Cardinality({i \in 1..Len(cs) : cs[i] = items[k]})

\* C18: find_specific_answer returns, best first, the three best of the pooled
\* candidates with a confidence of at least 0.7 if there is one, and then no
\* candidate below 0.7; otherwise the five best of all pooled candidates.
C18_DeepSearchSelection ==
    output # None /\ input.kind = "deep" =>
        LET high == SelectSeq(Pool, LAMBDA r : r.confidence >= HighConfidence)
        IN  IF high # <<>>
            THEN /\ BestOf(output.items, high, MaxHighResults)
                 /\ \A k \in 1..Len(output.items) :
                       output.items[k].confidence >= HighConfidence
            ELSE BestOf(output.items, Pool, MaxLowResults)

\* four candidates reached 0.7, one of them exactly; three were returned, the
\* one at 0.7 left out with the ones below
C18_Witness ==
    /\ output # None /\ input.kind = "deep"
    /\ Len(SelectSeq(Pool, LAMBDA r : r.confidence >= HighConfidence)) > MaxHighResults
    /\ \E i \in 1..Len(Pool) : Pool[i].confidence < HighConfidence
    /\ Len(output.items) = MaxHighResults

\* more than five candidates, none at 0.7: five were returned
C18_WitnessLow ==
    /\ output # None /\ input.kind = "deep"
    /\ Len(Pool) > MaxLowResults
    /\ \A i \in 1..Len(Pool) : Pool[i].confidence < HighConfidence
    /\ Len(output.items) = MaxLowResults


----------------------------------------------------------------------------
(* _send_to_ai: the model calls of one query *)

\* C19: for one query the chat-style request is issued at most once, the
\* completion-style request at most once and only after the chat-style one
\* failed, and nothing follows: the calls issued are none, the chat-style one,
\* or the chat-style one and then the completion-style one.
C19_ModelRetryProtocol ==
    /\ modelCalls \in {<<>>, <<"chat">>, <<"chat", "ollama">>}
    /\ (\E i \in 1..Len(modelCalls) : modelCalls[i] = "ollama") => "chat" \in failed
    /\ Len(modelCalls) <= 2
    /\ op \notin {"ai", "file"} => modelCalls = <<>>

\* a step issues a model call only from _send_to_ai, in its order
C19_CallsInOrder ==
    [][modelCalls' # modelCalls /\ modelCalls' # <<>> =>
          /\ Len(modelCalls') = Len(modelCalls) + 1
          /\ modelCalls = <<>> => pc = "chat" /\ modelCalls' = <<"chat">>
          /\ modelCalls # <<>> => pc = "ollama" /\ modelCalls' = <<"chat", "ollama">>]_vars

\* the chat-style request failed, the completion-style one was issued, and the
\* call has ended
C19_Witness ==
    /\ op = "ai" /\ pc = "done"
    /\ modelCalls = <<"chat", "ollama">>
    /\ "chat" \in failed /\ "ollama" \notin failed

\* the chat-style request answered and no second call was issued
C19_WitnessOneCall ==
    /\ op = "file" /\ pc = "done"
    /\ modelCalls = <<"chat">> /\ "chat" \notin failed


----------------------------------------------------------------------------
(* FAQCrawler._extract_faq_content (bot/faq_crawler.py) *)

\* the strategies, in the order of the list
strategies ==
    << "_extract_structured_faqs", "_extract_text_based_faqs", "_extract_table_faqs",
       "_extract_accordion_faqs", "_extract_general_content_faqs" >>

GoodContentCount == 3

\* an extraction with as many items as FoundGoodContent accepts already
FoundThreeItems(items) == Len(items) >= GoodContentCount

\* "if len(items) > 3": good structured content, the later strategies are skipped
FoundGoodContent(items) == Len(items) > GoodContentCount

\* the n items strategy s finds on a page
StrategyItems(s, n) == [j \in 1..n |-> [strategy |-> strategies[s], item |-> j]]

\* What the strategies find on a page: nothing, one item, three or four.
YieldSizes == {0, 1, GoodContentCount, GoodContentCount + 1}
ExtractInputs ==
    [kind : {"extract"},
     yields : {[s \in 1..Len(strategies) |-> StrategyItems(s, size[s])] :
                  size \in [1..Len(strategies) -> YieldSizes]}]

Extracting == output # None /\ input.kind = "extract" /\ ~output.returned

\* faq_items = []
ExtractFaqContent ==
    /\ input.kind = "extract" /\ output = None
    /\ output' = [invoked |-> <<>>, faq_items |-> <<>>, broke |-> FALSE, returned |-> FALSE]
    /\ UNCHANGED <<engineVars, cacheVars, input>>

\* one turn of "for strategy in strategies"
RunStrategy ==
    /\ Extracting /\ ~output.broke /\ Len(output.invoked) < Len(strategies)
    /\ LET s == Len(output.invoked) + 1
           items == input.yields[s]
       IN  output' = [output EXCEPT
                         !.invoked = Append(@, strategies[s]),
                         !.faq_items = IF items # <<>> THEN @ \o items ELSE @,
                         !.broke = items # <<>> /\ FoundGoodContent(items)]
    /\ UNCHANGED <<engineVars, cacheVars, input>>

\* return faq_items, after the break or after the last strategy
ReturnFaqItems ==
    /\ Extracting /\ (output.broke \/ Len(output.invoked) = Len(strategies))
    /\ output' = [output EXCEPT !.returned = TRUE]
    /\ UNCHANGED <<engineVars, cacheVars, input>>

ExtractInit == Idle /\ ColdCache /\ output = None /\ input \in ExtractInputs

ExtractNext == ExtractFaqContent \/ RunStrategy \/ ReturnFaqItems

ExtractSpec == ExtractInit /\ [][ExtractNext]_vars

RECURSIVE OutputsThrough(_, _)
\* the outputs of strategies 1..k, one after the other
OutputsThrough(yields, k) ==
    IF k = 0 THEN <<>> ELSE OutputsThrough(yields, k - 1) \o yields[k]

\* the strategies that find more than 3 items on the page of the call
GoodStrategies == {s \in 1..Len(strategies) : Len(input.yields[s]) > GoodContentCount}

\* the last strategy to run: the first that finds more than 3 items, or the fifth
LastStrategy ==
    IF GoodStrategies = {} THEN Len(strategies)
    ELSE CHOOSE k \in GoodStrategies : \A s \in GoodStrategies : k <= s

\* C20: the strategies run in the order of the list; no strategy after the
\* first one that finds more than 3 items is invoked, and the result is the
\* outputs of the strategies up to that one, in order, or of all five if no
\* strategy finds more than 3 items.
C20_ExtractorEarlyStop ==
    output # None /\ input.kind = "extract" =>
        /\ output.invoked = SubSeq(strategies, 1, Len(output.invoked))
        /\ Len(output.invoked) <= LastStrategy
        /\ output.faq_items = OutputsThrough(input.yields, Len(output.invoked))
        /\ output.returned =>
              /\ Len(output.invoked) = LastStrategy
              /\ output.faq_items = OutputsThrough(input.yields, LastStrategy)

\* the first strategy found three items, the second four, and a later one
\* that would have found some was never run
C20_Witness ==
    /\ output # None /\ input.kind = "extract" /\ output.returned
    /\ Len(input.yields[1]) = GoodContentCount
    /\ LastStrategy = 2
    /\ \E s \in 3..Len(strategies) : input.yields[s] # <<>>
    /\ Len(output.faq_items) = 2 * GoodContentCount + 1

\* no strategy found more than three items and all five were run
C20_WitnessAllFive ==
    /\ output # None /\ input.kind = "extract" /\ output.returned
    /\ GoodStrategies = {}
    /\ output.invoked = strategies
    /\ Len(output.faq_items) > GoodContentCount


----------------------------------------------------------------------------
(* handle_message and query_with_faq_context, fetch by fetch *)

\* The stages of one query: the message is in hand (RECEIVED), step 1 of
\* query_with_faq_context runs (RANK_OR_MATCH), _ai_search_and_answer runs
\* (SYNTHESIZE), the reply text is chosen (FORMAT), reply_text is called
\* (RESPONDED).
WithSynthesis == <<"RECEIVED", "RANK_OR_MATCH", "SYNTHESIZE", "FORMAT", "RESPONDED">>
WithoutSynthesis == <<"RECEIVED", "RANK_OR_MATCH", "FORMAT", "RESPONDED">>

QueryInputs == [kind : {"query"}, query : BatchQueries, fetched : CorpusFetches]

Handling == output # None /\ input.kind = "query"

\* the with block of scrape_all_faqs is left before every future has ended
SomeFetchEnded == Handling /\ output.completed # <<>>

\* the end of the with block of scrape_all_faqs: as_completed has yielded
\* every future and the executor has shut down
AllFetchesEnded == calls # <<>> /\ \A i \in Sites : calls[i] = "done"

\* the query moves to stage s at position p of the code
Move(s, p) == [output EXCEPT !.stage = s, !.trace = Append(@, s), !.step = p]

\* handle_message has read update.message.text
HandleMessage ==
    /\ input.kind = "query" /\ output = None
    /\ output' = [stage |-> "RECEIVED", trace |-> <<"RECEIVED">>, step |-> "call",
                  completed |-> <<>>, results |-> <<>>, modelCalls |-> <<>>,
                  answer |-> None]
    /\ UNCHANGED <<engineVars, input, cacheVars>>

\* query_ollama, query_with_faq_context: the try block is entered
EnterSearch ==
    /\ Handling /\ output.step = "call"
    /\ output' = Move("RANK_OR_MATCH", "import")
    /\ UNCHANGED <<engineVars, input, cacheVars>>

\* the import of faq_crawler raises
ImportRaises ==
    /\ Handling /\ output.step = "import"
    /\ output' = [Move("FORMAT", "reply") EXCEPT
                     !.answer = OnSearchError(input.query).answer]
    /\ UNCHANGED <<engineVars, input, cacheVars>>

\* scrape_all_faqs: executor.submit for every source
SubmitAll ==
    /\ Handling /\ output.step = "import"
    /\ calls' = [i \in Sites |-> "running"]
    /\ output' = [output EXCEPT !.step = "collect"]
    /\ UNCHANGED <<engineVars, input, now, cache, cacheTimestamp>>

\* a scrape_single_faq ends (items, or none after the request failed or timed
\* out) and as_completed yields its future
FetchEnds(i) ==
    /\ Handling /\ calls # <<>> /\ calls[i] = "running"
    /\ calls' = [calls EXCEPT ![i] = "done"]
    /\ output' = IF output.step = "collect"
                 THEN [output EXCEPT !.completed = Append(@, i)]
                 ELSE output
    /\ UNCHANGED <<engineVars, input, now, cache, cacheTimestamp>>

\* search_faqs returns
SearchReturns ==
    /\ Handling /\ output.step = "collect" /\ AllFetchesEnded
    /\ LET search_results == search_faqs(input.query, DefaultMaxResults, input.fetched,
                                         output.completed)
       IN  output' = IF search_results = <<>>
                     THEN [Move("FORMAT", "reply") EXCEPT
                              !.answer = [text |-> _emergency_fallback(input.query)]]
                     ELSE [Move("SYNTHESIZE", "chat") EXCEPT !.results = search_results]
    /\ UNCHANGED <<engineVars, input, cacheVars>>

\* search_faqs raises
SearchRaises ==
    /\ Handling /\ output.step = "collect" /\ AllFetchesEnded
    /\ output' = [Move("FORMAT", "reply") EXCEPT
                     !.answer = OnSearchError(input.query).answer]
    /\ UNCHANGED <<engineVars, input, cacheVars>>

\* _send_to_ai: the chat-style request, which ends
ChatEnds ==
    /\ Handling /\ output.step = "chat"
    /\ \E outcome \in ChatOutcomes :
          LET sent == _send_openai_compatible(outcome)
              called == [output EXCEPT !.modelCalls = Append(@, "chat")]
          IN  output' = IF sent.raises THEN [called EXCEPT !.step = "ollama"]
                        ELSE [called EXCEPT
                                 !.stage = "FORMAT", !.trace = Append(@, "FORMAT"),
                                 !.step = "reply",
                                 !.answer = AnswerFromSearch(output.results, sent)]
    /\ UNCHANGED <<engineVars, input, cacheVars>>

\* _send_to_ai: the completion-style request, which ends
OllamaEnds ==
    /\ Handling /\ output.step = "ollama"
    /\ \E outcome \in OllamaOutcomes :
          output' = [output EXCEPT
                        !.modelCalls = Append(@, "ollama"),
                        !.stage = "FORMAT", !.trace = Append(@, "FORMAT"),
                        !.step = "reply",
                        !.answer = AnswerFromSearch(output.results,
                                                    _send_ollama_format(outcome))]
    /\ UNCHANGED <<engineVars, input, cacheVars>>

\* handle_message: reply_text(response)
ReplyText ==
    /\ Handling /\ output.step = "reply"
    /\ output' = Move("RESPONDED", "sent")
    /\ UNCHANGED <<engineVars, input, cacheVars>>

QueryInit == Idle /\ ColdCache /\ output = None /\ input \in QueryInputs

QueryNext ==
    \/ HandleMessage
    \/ EnterSearch
    \/ ImportRaises
    \/ SubmitAll
    \/ \E i \in Sites : FetchEnds(i)
    \/ SearchReturns
    \/ SearchRaises
    \/ ChatEnds
    \/ OllamaEnds
    \/ ReplyText

\* Every request has a timeout and every step is one of a running call: a
\* step that can be taken is taken.
LiveSpec == QueryInit /\ [][QueryNext]_vars /\ WF_vars(QueryNext)

IsPrefix(s, t) == Len(s) <= Len(t) /\ s = SubSeq(t, 1, Len(s))

\* the stages are passed in order, SYNTHESIZE or not
StagesInOrder ==
    Handling => IsPrefix(output.trace, WithSynthesis) \/ IsPrefix(output.trace, WithoutSynthesis)

\* a model call is issued only with every dispatched fetch ended
ModelCallAfterFetches ==
    Handling /\ (output.modelCalls # <<>> \/ output.step \in {"chat", "ollama"})
        => /\ DOMAIN calls = Sites
           /\ \A i \in Sites : calls[i] # "running"
           /\ Len(output.completed) = Len(FAQ_WEBSITES)

\* C21: a received query passes RECEIVED, RANK_OR_MATCH, SYNTHESIZE or not,
\* FORMAT and RESPONDED in that order and reaches RESPONDED, every fetch and
\* every model call ending; its model call is issued only after every fetch
\* dispatched for it has ended.
C21_OrderedAndResponds ==
    /\ [](StagesInOrder /\ ModelCallAfterFetches)
    /\ Handling ~> (Handling /\ output.stage = "RESPONDED")
    /\ [](Handling /\ output.stage = "RESPONDED"
             => output.trace \in {WithSynthesis, WithoutSynthesis} /\ output.answer # None)

\* a query was answered after both model calls, every fetch having ended
\* before the first of them
C21_Witness ==
    /\ Handling /\ output.stage = "RESPONDED"
    /\ output.trace = WithSynthesis
    /\ output.modelCalls = <<"chat", "ollama">>
    /\ Len(output.completed) = Len(FAQ_WEBSITES)

\* a query was answered without a model call
C21_WitnessNoSynthesis ==
    /\ Handling /\ output.stage = "RESPONDED"
    /\ output.trace = WithoutSynthesis
    /\ output.modelCalls = <<>>


----------------------------------------------------------------------------
(* scrape_single_faq over a fetched document whose strategies can raise *)

\* _extract_general_content_faqs returns no item or the one item whose
\* question is "General FAQ Information"
GeneralStrategy == Len(strategies)
GeneralItem == StrategyItems(GeneralStrategy, 1)[1]

\* What the strategies do on a document: each raises or returns its items.
DocumentOutcomes ==
    {o \in [1..Len(strategies) ->
               {Raised} \cup {Returned(StrategyItems(s, n)) :
                                 s \in 1..Len(strategies), n \in {0, 1, GoodContentCount + 1}}] :
        \A s \in 1..Len(strategies) :
           ~o[s].raises =>
              /\ \A j \in 1..Len(o[s].value) : o[s].value[j].strategy = strategies[s]
              /\ s = GeneralStrategy => Len(o[s].value) <= 1}
DocumentInputs == [kind : {"document"}, outcomes : DocumentOutcomes]

RECURSIVE ExtractFrom(_, _)
\* the loop of _extract_faq_content from strategy s on: the items, or the
\* exception of the first strategy that raises, which nothing in the loop catches
ExtractFrom(outcomes, s) ==
    IF s > Len(strategies) THEN Returned(<<>>)
    ELSE IF outcomes[s].raises THEN Raised
    ELSE LET items == outcomes[s].value
             later == ExtractFrom(outcomes, s + 1)
         IN  IF items # <<>> /\ FoundGoodContent(items) THEN Returned(items)
             ELSE IF later.raises THEN Raised
             ELSE Returned(items \o later.value)

_extract_faq_content(outcomes) == ExtractFrom(outcomes, 1)

\* scrape_single_faq once the page is fetched and parsed: the items are
\* stored and returned, or the except clause returns none
ScrapeDocument ==
    /\ input.kind = "document" /\ output = None
    /\ LET faq_items == _extract_faq_content(input.outcomes)
       IN  output' = IF faq_items.raises THEN [items |-> <<>>, stored |-> FALSE]
                     ELSE [items |-> faq_items.value, stored |-> TRUE]
    /\ UNCHANGED <<engineVars, input, cacheVars>>

DocumentInit == Idle /\ ColdCache /\ output = None /\ input \in DocumentInputs

DocumentSpec == DocumentInit /\ [][ScrapeDocument]_vars

\* the outcomes with every strategy that raises taken as one that found nothing
SkippingFailed(outcomes) ==
    [s \in 1..Len(strategies) |-> IF outcomes[s].raises THEN Returned(<<>>) ELSE outcomes[s]]

\* C22: a strategy that fails on a document is skipped alone: the document's
\* items are those of the extraction with that strategy finding nothing, the
\* items of the strategies before and after it among them.
C22_StrategyIsolation ==
    output # None /\ input.kind = "document" =>
        output.items = _extract_faq_content(SkippingFailed(input.outcomes)).value

\* C23: whenever one of the first four strategies found an item on the
\* document, no item of the result is the "General FAQ Information" item.
C23_PlaceholderOnlyWithoutContent ==
    output # None /\ input.kind = "document" /\ output.stored
    /\ (\E s \in 1..(GeneralStrategy - 1) : input.outcomes[s].value # <<>>)
        => \A j \in 1..Len(output.items) : output.items[j] # GeneralItem


----------------------------------------------------------------------------
(* The order of a batch's results *)

\* C24: for the same contents of the sources the pooled corpus has the same
\* item order whichever fetch completes first, and the first result of a deep
\* search is the same whichever search completes first.
C24_CorpusOrderDeterministic ==
    output # None /\ input.kind \in {"corpus", "deep"} =>
        \A o \in CompletionOrders :
            /\ input.kind = "corpus" =>
                  scrape_all_faqs(input.fetched, o) = output.items
            /\ input.kind = "deep" =>
                  Take(find_specific_answer(input.query, input.fetched, o), 1)
                     = Take(output.items, 1)


----------------------------------------------------------------------------
(* The deep search for a query of no profile *)

\* C25: for a query with fewer than 2 keywords of every profile the deep
\* search finds no candidate, and the answer of get_robust_answer never comes
\* from the intelligent agent.
C25_DeepSearchOnlyClassified ==
    op = "robust" /\ _analyze_query(query) = "general" =>
        /\ deepTop = <<>>
        /\ pc = "done" /\ answer # None => answer.method # "intelligent_agent"


----------------------------------------------------------------------------
(* The two question predicates *)

\* question_indicators of FAQCrawler._is_likely_question
likely_question_indicators ==
    {"?", "adakah", "bagaimana", "apakah", "mengapa", "bila", "kapan", "siapa",
     "di mana", "berapa", "what", "how", "when", "where", "why", "who", "which",
     "can", "could", "should", "would", "is", "are", "do", "does", "did"}

\* FAQCrawler._is_likely_question; its lengths 10 and 200 and its list of
\* interrogative words are those of _looks_like_question
_is_likely_question(text) ==
    IF Len(text) < MinQuestionLength THEN FALSE
    ELSE LET text_lower == Strip(Lower(text))
             has_indicator == \E indicator \in likely_question_indicators :
                                 Contains(text_lower, indicator)
             ends_with_question == EndsWith(Strip(text), "?")
             starts_with_question_word == \E word \in question_words :
                                             StartsWith(text_lower, word)
         IN  has_indicator /\ (\/ ends_with_question
                               \/ starts_with_question_word
                               \/ Len(text) < ShortQuestionLength)

\* Texts with and without an interrogative word in front, a question mark at
\* the end, an indicator inside, shorter than 10 characters and longer than 200.
TextHeads == {"", "Adakah ", "What "}
TextBodies ==
    {"cip", "Berapa", "kad pengenalan sah", "this card is valid", "Borang telah dihantar",
     "berapa bayaran cip", "Pejabat JPN Putrajaya", "Syarat pasport baharu"}
TextFills == {"", Repeat(" sila ke kaunter JPN", 10)}
TextTails == {"", "?"}
QuestionTexts ==
    {h \o b \o f \o t : h \in TextHeads, b \in TextBodies, f \in TextFills, t \in TextTails}
QuestionInputs == [kind : {"question"}, text : QuestionTexts]

NotAsked == [likely |-> <<>>, looks |-> <<>>]

\* the extractor asks _is_likely_question
IsLikelyQuestion ==
    /\ input.kind = "question" /\ output.likely = <<>>
    /\ output' = [output EXCEPT !.likely = <<_is_likely_question(input.text)>>]
    /\ UNCHANGED <<engineVars, input, cacheVars>>

\* the deep search asks _looks_like_question
LooksLikeQuestion ==
    /\ input.kind = "question" /\ output.looks = <<>>
    /\ output' = [output EXCEPT !.looks = <<_looks_like_question(input.text)>>]
    /\ UNCHANGED <<engineVars, input, cacheVars>>

QuestionInit == Idle /\ ColdCache /\ output = NotAsked /\ input \in QuestionInputs

QuestionNext == IsLikelyQuestion \/ LooksLikeQuestion

QuestionSpec == QuestionInit /\ [][QuestionNext]_vars

\* C26: the two predicates give the same verdict on every text.
C26_SharedQuestionPredicate ==
    input.kind = "question" /\ output.likely # <<>> /\ output.looks # <<>>
        => output.likely = output.looks

\* either predicate accepts a text iff it holds an indicator of the set of
\* _looks_like_question and ends with "?", starts with an interrogative word
\* or is shorter than 200 characters
C26_AcceptedIff ==
    input.kind = "question" =>
        LET accepted ==
                /\ \E indicator \in question_indicators :
                      Contains(Strip(Lower(input.text)), indicator)
                /\ \/ EndsWith(Strip(input.text), "?")
                   \/ \E word \in question_words : StartsWith(Strip(Lower(input.text)), word)
                   \/ Len(input.text) < ShortQuestionLength
        IN  /\ output.likely # <<>> => output.likely[1] = accepted
            /\ output.looks # <<>> => output.looks[1] = accepted


----------------------------------------------------------------------------
(* _extract_agency_from_title over section titles *)

\* Titles: each keyword of the table alone, in lower case, and two keywords
\* in one title; and titles with no keyword of the table.
TitleKeywords == {agency_patterns[i][1] : i \in 1..Len(agency_patterns)}
PairedKeywords ==
    {"KAD PENGENALAN", "KELAHIRAN", "PENDAFTARAN NEGARA", "TRAFIK", "KESELAMATAN", "RELA"}
SectionTitles ==
    TitleKeywords
    \cup {Lower(k) : k \in TitleKeywords}
    \cup {"BAHAGIAN " \o a \o " DAN " \o b : a, b \in PairedKeywords}
    \cup {"", "SOALAN LAZIM", "Jabatan Imigresen", "PASPORT"}
TitleInputs == [kind : {"title"}, title : SectionTitles]

\* _parse_faq_sections tags a section
ExtractAgencyFromTitle ==
    /\ input.kind = "title" /\ output = None
    /\ output' = [agency |-> _extract_agency_from_title(input.title)]
    /\ UNCHANGED <<engineVars, input, cacheVars>>

TitleInit == Idle /\ ColdCache /\ output = None /\ input \in TitleInputs

TitleSpec == TitleInit /\ [][ExtractAgencyFromTitle]_vars

\* the entries of the table whose keyword the title holds
KeywordsHeld(title) ==
    {i \in 1..Len(agency_patterns) : Contains(Upper(title), agency_patterns[i][1])}

\* C27: the tag of a title is the agency of the longest keyword of the table
\* the title holds, and the default tag when it holds none.
C27_LongestKeywordWins ==
    output # None /\ input.kind = "title" =>
        LET held == KeywordsHeld(input.title)
        IN  IF held = {} THEN output.agency = DefaultAgency
            ELSE \E i \in held :
                    /\ \A j \in held : Len(agency_patterns[j][1]) <= Len(agency_patterns[i][1])
                    /\ output.agency = agency_patterns[i][2]

\* the tag is the agency of the first keyword, in the order of the table,
\* that the title holds
C27_FirstKeywordWins ==
    output # None /\ input.kind = "title" =>
        LET held == KeywordsHeld(input.title)
        IN  IF held = {} THEN output.agency = DefaultAgency
            ELSE \E i \in held :
                    /\ \A j \in held : i <= j
                    /\ output.agency = agency_patterns[i][2]


----------------------------------------------------------------------------
(* A model reply that cannot be parsed *)

\* C28: a completion-style reply without the response field is a failed
\* model call: the text standing in for it is never part of the answer, and
\* the answer after it is the first-ranked candidate with its source.
C28_UnparseableReplyIsModelError ==
    (op \in {"ai", "file"} /\ pc = "done" /\ answer # None) =>
        ~Contains(answer.text, NoModelResponse)


----------------------------------------------------------------------------
(* The sources as the corpus search and the deep search consult them *)

\* _search_website_intelligently(FAQ_WEBSITES[site], query, strategy), called d
\* seconds after the call before: session.get is called whatever the crawler's
\* cache holds, and nothing is stored
SearchWebsiteIntelligently ==
    /\ Idle /\ NoCall
    /\ Len(calls) < MaxCalls
    /\ \E site \in Sites, d \in Delays, fetched \in {PageExact, FetchFailed} :
          LET at == now + d
              query_text == "cip IC"
          IN  /\ now' = at
              /\ calls' = Append(calls,
                                 [site |-> site, at |-> at, io |-> TRUE, stored |-> FALSE,
                                  failed |-> fetched = FetchFailed, query |-> query_text,
                                  items |-> _search_website_intelligently(
                                                site, fetched, _analyze_query(query_text))])
    /\ UNCHANGED <<engineVars, pureVars, cache, cacheTimestamp>>

SourceNext == ScrapeSingleFaq \/ SearchWebsiteIntelligently

SourceSpec == Init /\ [][SourceNext]_vars

\* call i is one of the deep search
DeepCall(i) == "query" \in DOMAIN calls[i]

\* C29: a deep search of a source less than 3600 s after the source was
\* fetched and stored makes no request for it.
C29_DeepSearchThroughCache ==
    \A i \in 1..Len(calls) :
        DeepCall(i) /\ (\E j \in StoresBefore(i) : calls[i].at - calls[j].at < cache_duration)
            => ~calls[i].io


----------------------------------------------------------------------------
(* scrape_single_faq: a failed fetch and the cache *)

\* the calls of scrape_single_faq for source s that stored an entry
StoredCalls(s) == {j \in 1..Len(calls) : calls[j].site = s /\ calls[j].stored}

\* the cache holds what the calls that did not fail stored, and nothing else
CacheOfStoredCalls ==
    \A s \in Sites :
        IF StoredCalls(s) = {}
        THEN s \notin DOMAIN cache /\ s \notin DOMAIN cacheTimestamp
        ELSE /\ s \in DOMAIN cache /\ s \in DOMAIN cacheTimestamp
             /\ cache[s] = calls[Latest(StoredCalls(s))].items
             /\ cacheTimestamp[s] = calls[Latest(StoredCalls(s))].at

\* C30: a call of scrape_single_faq whose fetch fails returns no item, an
\* expired entry included, and writes neither the items nor the timestamp of
\* its source; the next call for the source makes a request again.
C30_FailedFetchLeavesCache ==
    /\ CacheOfStoredCalls
    /\ \A i \in 1..Len(calls) :
          calls[i].failed =>
              /\ calls[i].items = <<>>
              /\ ~calls[i].stored
              /\ \A k \in (i + 1)..Len(calls) :
                    (/\ calls[k].site = calls[i].site
                     /\ \A m \in (i + 1)..(k - 1) : calls[m].site # calls[i].site)
                        => calls[k].io

\* an entry with items expired, the fetch after it failed and returned
\* nothing, and the call after that fetched again and stored
C30_Witness ==
    /\ Len(calls) = 3
    /\ calls[1].stored /\ calls[1].items # <<>>
    /\ calls[2].site = calls[1].site /\ calls[2].failed /\ calls[2].items = <<>>
    /\ calls[2].at > calls[1].at + cache_duration
    /\ calls[3].site = calls[1].site /\ calls[3].io /\ calls[3].stored

=============================================================================
